---- MODULE Spec2Model ----
(***************************************************************************)
(* Model of the cart-injection engine of AppGrid                           *)
(* (src/src/utils/cart-injector.js, the exported addToCartBulk and the     *)
(* three strategies it tries in order).                                    *)
(*                                                                         *)
(* One invocation of addToCartBulk is a process whose position is pc.  The *)
(* page (window, host cart API, DOM, toast element) is the environment:    *)
(* what is fixed for the page is drawn in Init (env), what the page may    *)
(* answer differently on every lookup or call is drawn with \E in the      *)
(* action that performs the lookup or call.                                *)
(***************************************************************************)
EXTENDS Integers, Sequences, FiniteSets, TLC

---------------------------------------------------------------------------
(* Bounds of the model *)

\* longest batch handed to addToCartBulk
MaxItems == 2

\* largest quantity of a line item
MaxQty == 2

---------------------------------------------------------------------------
(* JavaScript values of the variantId field: a tag and the text String(x)  *)
(* yields for it.                                                          *)

JsUndefined == [t |-> "undefined", v |-> "undefined"]

JsNull == [t |-> "null", v |-> "null"]

Str(s) == [t |-> "string", v |-> s]

Num(s) == [t |-> "number", v |-> s]

\* the identifiers a caller may pass: absent, null, the empty string, and the
\* number 101 (the widget passes numbers: CartItem.variantId is a number)
VariantIds == {JsUndefined, JsNull, Str(""), Num("101")}

\* the quantities a caller may pass: none, one, and the largest
Quantities == {0, 1, MaxQty}

LineItems == [variantId : VariantIds, quantity : Quantities]

RECURSIVE SeqsUpTo(_, _)
SeqsUpTo(S, n) ==
  IF n = 0 THEN {<<>>}
  ELSE LET shorter == SeqsUpTo(S, n - 1)
       IN shorter \cup {Append(s, x) : s \in {q \in shorter : Len(q) = n - 1}, x \in S}

Batches == SeqsUpTo(LineItems, MaxItems)

\* JavaScript truthiness of a variantId: !item.variantId is true for
\* undefined, null and the empty string
Truthy(id) == id.t \notin {"undefined", "null"} /\ id.v # ""

\* String(x)
JsString(id) == Str(id.v)

Digit == <<"0", "1", "2", "3", "4", "5", "6", "7", "8", "9">>

\* the decimal text of a natural number, as template literals print it
RECURSIVE NatToStr(_)
NatToStr(n) ==
  IF n < 10 THEN Digit[n + 1] ELSE NatToStr(n \div 10) \o Digit[(n % 10) + 1]

\* `${x}` for a variantId
Interp(id) == id.v

---------------------------------------------------------------------------
VARIABLES
  env,         \* the page: window defined, host cart API present
  items,       \* the argument of addToCartBulk
  pc,          \* position of the invocation
  validItems,  \* const validItems
  idx,         \* index of the item the running strategy's loop is at
  added,       \* let added of strategyDomManipulation
  success,     \* let success of addToCartBulk
  resA,        \* what strategyNuvemshopCartApi returned: "none" until it returns
  resB,        \* what strategyDomManipulation returned
  resC,        \* what strategyRedirect returned
  trace,       \* everything the invocation did to the page, in order
  location,    \* window.location.href once assigned, "" before
  toast,       \* the #cart-toast element: display and textContent
  toastTimers, \* pending hide timers of showToast
  events,      \* details of the dispatched 'grade-atacado:cart-updated' events
  now,         \* the page's clock, in ms
  toastDue,    \* the times at which the pending hide timers of showToast fire
  shows,       \* the calls of showToast so far: message, time, element found
  apiPc,       \* position of a call of getProductVariants
  productId,   \* its argument productId
  page,        \* its argument page
  userId,      \* this.userId of the service
  attempt,     \* let attempt of its loop
  apiLog,      \* the requests, responses and sleeps of the call, in order
  apiResult,   \* what the call returned or threw
  cache,               \* this.cache of the service: key, data, expiresAt
  pendingSkuPrefix,    \* this.pendingSkuPrefix
  pendingSkuResolvers, \* this.pendingSkuResolvers: the promises they resolve
  pendingSkuRejecters, \* this.pendingSkuRejecters: the promises they reject
  skuDebounceTimer,    \* this.skuDebounceTimer: whether set, and when it fires
  promises,            \* the promises searchVariantsBySku returned, in order
  requests,            \* the HTTP requests of searchVariantsBySku, in order
  storeImpl,      \* which of the two sources of store/tokens the server runs
  tokenKey,       \* process.env.TOKEN_ENCRYPTION_KEY
  tokensFile,     \* data/tokens.json: whether it exists, and its records
  storeLog,       \* the calls of saveToken, getToken and removeToken, in order
  webhookSecret,  \* process.env.WEBHOOK_HMAC_SECRET, "" when unset
  nodeEnv,        \* process.env.NODE_ENV
  hookLog,        \* the requests to the data-deletion webhook and their answers
  gridImpl,               \* which of the two sources of VariantGrid is rendered
  maxQuantityPerVariant,  \* the prop of VariantGrid: whether given, its value
  quantities,             \* const [quantities, setQuantities] of VariantGrid
  gridLog,                \* the edits and clicks on the grid, in order
  bulkCalls,     \* two invocations of addToCartBulk on one page: items, position
  pageControls,  \* which controls the page has: select, input, button
  selectValue,   \* variantSelect.value
  qtyValue,      \* qtyInput.value
  clicks         \* the clicks of addBtn, and what the controls held then

\* the storefront script's invocation and its page
cartVars == <<env, items, pc, validItems, idx, added, success, resA, resB, resC,
              trace, location, toast, toastTimers, events>>

\* the timed view of showToast
timeVars == <<now, toastDue, shows>>

\* the backend's API service
apiVars == <<apiPc, productId, page, userId, attempt, apiLog, apiResult>>

\* the SKU search of the API service
skuVars == <<cache, pendingSkuPrefix, pendingSkuResolvers, pendingSkuRejecters,
             skuDebounceTimer, promises, requests>>

\* the token store and the data-deletion webhook of the server
serverVars == <<storeImpl, tokenKey, tokensFile, storeLog, webhookSecret,
                nodeEnv, hookLog>>

\* the VariantGrid component
gridVars == <<gridImpl, maxQuantityPerVariant, quantities, gridLog>>

\* two invocations of addToCartBulk that overlap
pairVars == <<bulkCalls, pageControls, selectValue, qtyValue, clicks>>

\* what the SKU search never touches, other than cart, time and API call
afterSkuVars == <<serverVars, gridVars, pairVars>>

\* what the server never touches, other than those and the SKU search
afterServerVars == <<gridVars, pairVars>>

\* the rest of the backend and of the widget
laterVars == <<skuVars, serverVars, gridVars, pairVars>>

\* what an invocation of addToCartBulk never touches
otherVars == <<timeVars, apiVars, laterVars>>

vars == <<cartVars, timeVars, apiVars, laterVars>>

\* one entry of trace: what was done, on behalf of which item of validItems
\* (k, 0 when none), and the values handed to the page (a text or
\* identifier id, a number n)
Ev(op, k, id, n) == [op |-> op, k |-> k, id |-> id, n |-> n]

Mark(op, k) == Ev(op, k, JsUndefined, 0)

Log(e) == trace' = Append(trace, e)

Log2(e, f) == trace' = trace \o <<e, f>>

Log3(e, f, g) == trace' = trace \o <<e, f, g>>

\* window.NuvemshopCart (with its add function) needs a window
Envs == {e \in [window : BOOLEAN, cartApi : BOOLEAN] : e.cartApi => e.window}

\* no toast has been timed
TimeIdle ==
  /\ now = 0
  /\ toastDue = <<>>
  /\ shows = <<>>

\* no call of getProductVariants is under way
ApiIdle ==
  /\ apiPc = "idle"
  /\ productId = ""
  /\ page = 1
  /\ userId = JsUndefined
  /\ attempt = 0
  /\ apiLog = <<>>
  /\ apiResult = [kind |-> "none", s |-> "", n |-> 0, d |-> <<>>]

\* no search by SKU has been made: the cache is empty (line 29), nothing is
\* pending (lines 33-35)
SkuIdle ==
  /\ cache = {}
  /\ pendingSkuPrefix = ""
  /\ pendingSkuResolvers = <<>>
  /\ pendingSkuRejecters = <<>>
  /\ skuDebounceTimer = [set |-> FALSE, due |-> 0]
  /\ promises = <<>>
  /\ requests = <<>>

\* the server has handled nothing: no token file, no key, no secret
ServerIdle ==
  /\ storeImpl = "src/store/tokens.ts"
  /\ tokenKey = [set |-> FALSE, valid |-> FALSE, k |-> 0]
  /\ tokensFile = [exists |-> FALSE, records |-> {}]
  /\ storeLog = <<>>
  /\ webhookSecret = ""
  /\ nodeEnv = "development"
  /\ hookLog = <<>>

\* no grid is rendered
GridIdle ==
  /\ gridImpl = "src/components/VariantGrid/VariantGrid.tsx"
  /\ maxQuantityPerVariant = [given |-> FALSE, v |-> 0]
  /\ quantities = [v \in {} |-> 0]
  /\ gridLog = <<>>

\* one entry of calls: an invocation that has not been made
NotCalled == [items |-> <<>>, pc |-> "idle", resume |-> "", idx |-> 0, due |-> 0]

\* no invocation is followed as one of a pair
PairIdle ==
  /\ bulkCalls = <<NotCalled, NotCalled>>
  /\ pageControls = [select |-> FALSE, input |-> FALSE, button |-> FALSE]
  /\ selectValue = ""
  /\ qtyValue = ""
  /\ clicks = <<>>

LaterIdle == SkuIdle /\ ServerIdle /\ GridIdle /\ PairIdle

Init ==
  /\ TimeIdle
  /\ ApiIdle
  /\ LaterIdle
  /\ env \in Envs
  /\ items \in Batches
  /\ pc = "call"
  /\ validItems = <<>>
  /\ idx = 0
  /\ added = 0
  /\ success = FALSE
  /\ resA = "none"
  /\ resB = "none"
  /\ resC = "none"
  /\ trace = <<>>
  /\ location = ""
  /\ toast = [display |-> "none", text |-> ""]
  /\ toastTimers = 0
  /\ events = <<>>

---------------------------------------------------------------------------
(* addToCartBulk, lines 348-352: the entry filter *)

PassesEntryFilter(i) ==
  /\ i.variantId.t # "undefined"
  /\ i.variantId.t # "null"
  /\ i.quantity > 0

Call ==
  /\ pc = "call"
  /\ validItems' = SelectSeq(items, PassesEntryFilter)
  /\ pc' = IF Len(validItems') = 0 THEN "done" ELSE "A"
  /\ UNCHANGED <<otherVars, env, items, idx, added, success, resA, resB, resC, trace,
                 location, toast, toastTimers, events>>

---------------------------------------------------------------------------
(* strategyNuvemshopCartApi, lines 247-269 *)

\* the guard without its test of window.NuvemshopCart
CartApiAvailable_WindowOnly == env.window

\* lines 248-254: the guard, evaluated when addToCartBulk calls the strategy
\* (line 357)
CartApiAvailable == env.window /\ env.cartApi

\* line 257: the item is skipped by the strategy's own check
SkippedByStrategy(item) == ~Truthy(item.variantId) \/ item.quantity <= 0

\* lines 258-261: the argument of window.NuvemshopCart.add
HostAddArg(k, item) == Ev("hostAdd", k, JsString(item.variantId), item.quantity)

StrategyA_Enter ==
  /\ pc = "A"
  /\ IF CartApiAvailable
     THEN /\ idx' = 1
          /\ pc' = "A_loop"
          /\ UNCHANGED <<resA, success>>
     ELSE /\ resA' = "false"
          /\ success' = FALSE
          /\ pc' = "afterA"
          /\ UNCHANGED idx
  /\ Log(Mark("startA", 0))
  /\ UNCHANGED <<otherVars, env, items, validItems, added, resB, resC, location, toast,
                 toastTimers, events>>

\* the head of for (const item of items): return true when exhausted (line
\* 264), continue on a skipped item (line 257), else issue the call (line 258)
StrategyA_Loop ==
  /\ pc = "A_loop"
  /\ IF idx > Len(validItems)
     THEN /\ resA' = "true"
          /\ success' = TRUE
          /\ pc' = "afterA"
          /\ UNCHANGED <<idx, trace>>
     ELSE IF SkippedByStrategy(validItems[idx])
     THEN /\ idx' = idx + 1
          /\ UNCHANGED <<pc, resA, success, trace>>
     ELSE /\ Log(HostAddArg(idx, validItems[idx]))
          /\ pc' = "A_await"
          /\ UNCHANGED <<idx, resA, success>>
  /\ UNCHANGED <<otherVars, env, items, validItems, added, resB, resC, location, toast,
                 toastTimers, events>>

\* the loop without its delay(300): the next call follows at once
HostAddResolves_SkipsDelay ==
  /\ pc = "A_await"
  /\ Log(Mark("hostOk", idx))
  /\ idx' = idx + 1
  /\ pc' = "A_loop"
  /\ UNCHANGED <<otherVars, env, items, validItems, added, success, resA, resB, resC,
                 location, toast, toastTimers, events>>

\* the call not awaited: the strategy goes on while the call is unsettled
HostAddResolves_Unawaited ==
  /\ pc = "A_await"
  /\ pc' = "A_delay"
  /\ UNCHANGED <<otherVars, env, items, validItems, idx, added, success, resA, resB, resC,
                 trace, location, toast, toastTimers, events>>

\* await window.NuvemshopCart.add(...) settles: it resolves and the strategy
\* goes on to delay(300) (line 262)
HostAddResolves ==
  /\ pc = "A_await"
  /\ Log(Mark("hostOk", idx))
  /\ pc' = "A_delay"
  /\ UNCHANGED <<otherVars, env, items, validItems, idx, added, success, resA, resB, resC,
                 location, toast, toastTimers, events>>

\* the strategy without its try/catch: the failure escapes to addToCartBulk
HostAddFails_Uncaught ==
  /\ pc = "A_await"
  /\ Log(Mark("hostErr", idx))
  /\ pc' = "rejected"
  /\ UNCHANGED <<otherVars, env, items, validItems, idx, added, success, resA, resB, resC,
                 location, toast, toastTimers, events>>

\* the try/catch inside the loop: the failure is logged and the loop goes on
HostAddFails_ContinuesLoop ==
  /\ pc = "A_await"
  /\ Log(Mark("hostErr", idx))
  /\ idx' = idx + 1
  /\ pc' = "A_loop"
  /\ UNCHANGED <<otherVars, env, items, validItems, added, success, resA, resB, resC,
                 location, toast, toastTimers, events>>

\* the call throws or its promise rejects: the catch of lines 265-268
HostAddFails ==
  /\ pc = "A_await"
  /\ Log(Mark("hostErr", idx))
  /\ resA' = "false"
  /\ success' = FALSE
  /\ pc' = "afterA"
  /\ UNCHANGED <<otherVars, env, items, validItems, idx, added, resB, resC, location,
                 toast, toastTimers, events>>

\* the loop resumes with the item it has just added
StrategyA_DelayDone_SameItem ==
  /\ pc = "A_delay"
  /\ Log(Ev("delayed", idx, JsUndefined, 300))
  /\ pc' = "A_loop"
  /\ UNCHANGED <<otherVars, env, items, validItems, idx, added, success, resA, resB, resC,
                 location, toast, toastTimers, events>>

\* the timer of delay(300) fires (line 262) and the loop moves on
StrategyA_DelayDone ==
  /\ pc = "A_delay"
  /\ Log(Ev("delayed", idx, JsUndefined, 300))
  /\ idx' = idx + 1
  /\ pc' = "A_loop"
  /\ UNCHANGED <<otherVars, env, items, validItems, added, success, resA, resB, resC,
                 location, toast, toastTimers, events>>

---------------------------------------------------------------------------
(* addToCartBulk, lines 359-362 *)

\* line 360 without its test of success
AfterA_AlwaysRunsB ==
  /\ pc = "afterA"
  /\ Log(Mark("startB", 0))
  /\ added' = 0
  /\ idx' = 1
  /\ pc' = "B_loop"
  /\ UNCHANGED <<otherVars, env, items, validItems, success, resA, resB, resC, location,
                 toast, toastTimers, events>>

\* the fallback resumed at the item whose host call failed
AfterA_ResumesAtFailure ==
  /\ pc = "afterA"
  /\ IF success
     THEN /\ pc' = "complete"
          /\ UNCHANGED <<idx, added, trace>>
     ELSE /\ Log(Mark("startB", 0))
          /\ added' = 0
          /\ idx' = IF idx = 0 THEN 1 ELSE idx
          /\ pc' = "B_loop"
  /\ UNCHANGED <<otherVars, env, items, validItems, success, resA, resB, resC, location,
                 toast, toastTimers, events>>

AfterA ==
  /\ pc = "afterA"
  /\ IF success
     THEN /\ pc' = "complete"
          /\ UNCHANGED <<idx, added, trace>>
     ELSE /\ Log(Mark("startB", 0))
          /\ added' = 0
          /\ idx' = 1
          /\ pc' = "B_loop"
  /\ UNCHANGED <<otherVars, env, items, validItems, success, resA, resB, resC, location,
                 toast, toastTimers, events>>

---------------------------------------------------------------------------
(* strategyDomManipulation, lines 276-323 *)

\* a document that is there whatever the execution context
DocumentDefined_Always == TRUE

\* without a browser there is no document: every DOM lookup raises a
\* ReferenceError
DocumentDefined == env.window

\* success only when every item was clicked
DomResult_AllItems == added = Len(validItems)

\* line 322
DomResult == added > 0

\* the head of for (const item of items): return added > 0 when exhausted
\* (line 322), continue on a skipped item (line 279), else enter the try
\* (the entry is recorded in trace as "domItem")
StrategyB_Loop ==
  /\ pc = "B_loop"
  /\ IF idx > Len(validItems)
     THEN /\ resB' = IF DomResult THEN "true" ELSE "false"
          /\ success' = DomResult
          /\ pc' = "afterB"
          /\ UNCHANGED <<idx, trace>>
     ELSE IF SkippedByStrategy(validItems[idx])
     THEN /\ idx' = idx + 1
          /\ UNCHANGED <<pc, resB, success, trace>>
     ELSE /\ pc' = "B_select"
          /\ Log(Mark("domItem", idx))
          /\ UNCHANGED <<idx, resB, success>>
  /\ UNCHANGED <<otherVars, env, items, validItems, added, resA, resC, location, toast,
                 toastTimers, events>>

\* lines 282-292: no select matches, or it has no option for the variant
SelectAbsent ==
  /\ pc = "B_select"
  /\ DocumentDefined
  /\ pc' = "B_qty"
  /\ UNCHANGED <<otherVars, env, items, validItems, idx, added, success, resA, resB, resC,
                 trace, location, toast, toastTimers, events>>

\* lines 288-290: the select is set and 'change' raised on it
SelectSet ==
  /\ pc = "B_select"
  /\ DocumentDefined
  /\ Log2(Ev("selSet", idx, JsString(validItems[idx].variantId), 0),
          Mark("selChange", idx))
  /\ pc' = "B_selDelay"
  /\ UNCHANGED <<otherVars, env, items, validItems, idx, added, success, resA, resB, resC,
                 location, toast, toastTimers, events>>

\* the timer of delay(300) fires (line 290)
SelectDelayDone ==
  /\ pc = "B_selDelay"
  /\ Log(Ev("delayed", idx, JsUndefined, 300))
  /\ pc' = "B_qty"
  /\ UNCHANGED <<otherVars, env, items, validItems, idx, added, success, resA, resB, resC,
                 location, toast, toastTimers, events>>

\* lines 295-305: no quantity input matches
QtyAbsent ==
  /\ pc = "B_qty"
  /\ DocumentDefined
  /\ pc' = "B_btn"
  /\ UNCHANGED <<otherVars, env, items, validItems, idx, added, success, resA, resB, resC,
                 trace, location, toast, toastTimers, events>>

\* 'change' raised on the input before 'input'
QtySet_ChangeFirst ==
  /\ pc = "B_qty"
  /\ DocumentDefined
  /\ Log3(Ev("qtySet", idx, Str(NatToStr(validItems[idx].quantity)), 0),
          Mark("qtyChange", idx), Mark("qtyInput", idx))
  /\ pc' = "B_qtyDelay"
  /\ UNCHANGED <<otherVars, env, items, validItems, idx, added, success, resA, resB, resC,
                 location, toast, toastTimers, events>>

\* lines 301-304: the input is set to String(item.quantity), 'input' and then
\* 'change' are raised on it
QtySet ==
  /\ pc = "B_qty"
  /\ DocumentDefined
  /\ Log3(Ev("qtySet", idx, Str(NatToStr(validItems[idx].quantity)), 0),
          Mark("qtyInput", idx), Mark("qtyChange", idx))
  /\ pc' = "B_qtyDelay"
  /\ UNCHANGED <<otherVars, env, items, validItems, idx, added, success, resA, resB, resC,
                 location, toast, toastTimers, events>>

\* the timer of delay(100) fires (line 304)
QtyDelayDone ==
  /\ pc = "B_qtyDelay"
  /\ Log(Ev("delayed", idx, JsUndefined, 100))
  /\ pc' = "B_btn"
  /\ UNCHANGED <<otherVars, env, items, validItems, idx, added, success, resA, resB, resC,
                 location, toast, toastTimers, events>>

\* lines 308-317: no add-to-cart button matches; the item is done
BtnAbsent ==
  /\ pc = "B_btn"
  /\ DocumentDefined
  /\ idx' = idx + 1
  /\ pc' = "B_loop"
  /\ UNCHANGED <<otherVars, env, items, validItems, added, success, resA, resB, resC,
                 trace, location, toast, toastTimers, events>>

\* lines 314-316: the button is clicked and the item counted
BtnClick ==
  /\ pc = "B_btn"
  /\ DocumentDefined
  /\ Log(Mark("click", idx))
  /\ added' = added + 1
  /\ pc' = "B_btnDelay"
  /\ UNCHANGED <<otherVars, env, items, validItems, idx, success, resA, resB, resC,
                 location, toast, toastTimers, events>>

\* the timer of delay(300) fires (line 316); the item is done
BtnDelayDone ==
  /\ pc = "B_btnDelay"
  /\ Log(Ev("delayed", idx, JsUndefined, 300))
  /\ idx' = idx + 1
  /\ pc' = "B_loop"
  /\ UNCHANGED <<otherVars, env, items, validItems, added, success, resA, resB, resC,
                 location, toast, toastTimers, events>>

\* the try/catch around the loop instead of inside it: the first exception
\* ends the strategy with false
DomLookupThrows_AbortsLoop ==
  /\ pc \in {"B_select", "B_qty", "B_btn"}
  /\ Log(Mark("domErr", idx))
  /\ resB' = "false"
  /\ success' = FALSE
  /\ pc' = "afterB"
  /\ UNCHANGED <<otherVars, env, items, validItems, idx, added, resA, resC, location,
                 toast, toastTimers, events>>

\* a lookup (querySelector) or the click raises: the catch of lines 318-320
\* logs a warning and the loop goes on with the next item
DomLookupThrows ==
  /\ pc \in {"B_select", "B_qty", "B_btn"}
  /\ Log(Mark("domErr", idx))
  /\ idx' = idx + 1
  /\ pc' = "B_loop"
  /\ UNCHANGED <<otherVars, env, items, validItems, added, success, resA, resB, resC,
                 location, toast, toastTimers, events>>

\* dispatchEvent raises after the control's value was written (lines 288-289,
\* 301-303): the same catch
DomDispatchThrows ==
  /\ DocumentDefined
  /\ \/ /\ pc = "B_select"
        /\ Log2(Ev("selSet", idx, JsString(validItems[idx].variantId), 0),
                Mark("domErr", idx))
     \/ /\ pc = "B_qty"
        /\ \/ Log2(Ev("qtySet", idx, Str(NatToStr(validItems[idx].quantity)), 0),
                   Mark("domErr", idx))
           \/ Log3(Ev("qtySet", idx, Str(NatToStr(validItems[idx].quantity)), 0),
                   Mark("qtyInput", idx), Mark("domErr", idx))
  /\ idx' = idx + 1
  /\ pc' = "B_loop"
  /\ UNCHANGED <<otherVars, env, items, validItems, added, success, resA, resB, resC,
                 location, toast, toastTimers, events>>

---------------------------------------------------------------------------
(* strategyRedirect, lines 330-339, called from addToCartBulk lines 364-367 *)

\* line 333
RedirectFilter(i) == Truthy(i.variantId) /\ i.quantity > 0

\* the pair with its two halves exchanged
RedirectPair_Swapped(i) == "items[]=" \o NatToStr(i.quantity) \o ":" \o Interp(i.variantId)

\* line 334
RedirectPair(i) == "items[]=" \o Interp(i.variantId) \o ":" \o NatToStr(i.quantity)

\* Array.prototype.join('&') over the mapped items
RECURSIVE JoinPairs(_)
JoinPairs(s) ==
  IF s = <<>> THEN ""
  ELSE IF Len(s) = 1 THEN RedirectPair(s[1])
  ELSE RedirectPair(s[1]) \o "&" \o JoinPairs(Tail(s))

\* lines 332-335
RedirectParams(list) == JoinPairs(SelectSeq(list, RedirectFilter))

AfterB ==
  /\ pc = "afterB"
  /\ IF success
     THEN UNCHANGED <<success, resC, trace, location>>
     ELSE IF ~env.window \/ RedirectParams(validItems) = ""
     THEN /\ resC' = "false"
          /\ success' = FALSE
          /\ Log(Mark("startC", 0))
          /\ UNCHANGED location
     ELSE /\ location' = "/cart/add?" \o RedirectParams(validItems)
          /\ resC' = "true"
          /\ success' = TRUE
          /\ Log2(Mark("startC", 0), Mark("navigate", 0))
  /\ pc' = "complete"
  /\ UNCHANGED <<otherVars, env, items, validItems, idx, added, resA, resB, toast,
                 toastTimers, events>>

---------------------------------------------------------------------------
(* addToCartBulk, lines 369-382, and showToast, lines 232-240 *)

RECURSIVE SumQty(_)
SumQty(s) == IF s = <<>> THEN 0 ELSE Head(s).quantity + SumQty(Tail(s))

\* line 370
TotalQty == SumQty(validItems)

\* line 371
Message == NatToStr(TotalQty) \o " produto(s) adicionado(s) ao carrinho!"

\* line 377
EventDetail == [items |-> validItems, totalQty |-> TotalQty]

\* line 369 with success false: nothing is shown, the promise resolves
CompleteSilently ==
  /\ pc = "complete"
  /\ ~success
  /\ pc' = "done"
  /\ UNCHANGED <<otherVars, env, items, validItems, idx, added, success, resA, resB, resC,
                 trace, location, toast, toastTimers, events>>

\* showToast, lines 232-240, as the page lets it end: there is no
\* #cart-toast element (line 234), or the text is set, the element shown and
\* a timer of 3000 ms scheduled to hide it (lines 235-239), or it raises (no
\* document, an element without style)
ToastOutcomes == {"absent", "shown", "throws"}

\* lines 374-381, as the page lets them end: the event is dispatched, or
\* window.dispatchEvent is no function (line 374), or new CustomEvent or
\* dispatchEvent raises
DispatchOutcomes == {"dispatched", "unavailable", "throws"}

\* lines 369-382 with success true run without a suspension point; nothing
\* in addToCartBulk catches what showToast or the dispatch raises, and the
\* promise of the async function rejects
CompleteWith(t, d) ==
  /\ toast' = IF t = "shown" THEN [display |-> "block", text |-> Message]
              ELSE toast
  /\ toastTimers' = IF t = "shown" THEN toastTimers + 1 ELSE toastTimers
  /\ events' = IF t # "throws" /\ d = "dispatched"
               THEN Append(events, EventDetail) ELSE events
  /\ trace' = trace
              \o (IF t = "shown" THEN <<Mark("toast", 0)>> ELSE <<>>)
              \o (IF t # "throws" /\ d = "dispatched"
                  THEN <<Mark("event", 0)>> ELSE <<>>)
  /\ pc' = IF t = "throws" \/ d = "throws" THEN "rejected" ELSE "done"

CompleteSuccess ==
  /\ pc = "complete"
  /\ success
  /\ \E t \in ToastOutcomes, d \in DispatchOutcomes :
       /\ (d # "unavailable") => env.window
       /\ CompleteWith(t, d)
  /\ UNCHANGED <<otherVars, env, items, validItems, idx, added, success, resA, resB, resC,
                 location>>

\* the timer set on line 237 fires, 3000 ms after the toast was shown
ToastHide ==
  /\ toastTimers > 0
  /\ pc \in {"done", "rejected"}
  /\ toast' = [toast EXCEPT !.display = "none"]
  /\ toastTimers' = toastTimers - 1
  /\ UNCHANGED <<otherVars, env, items, pc, validItems, idx, added, success, resA, resB,
                 resC, trace, location, events>>

Next ==
  \/ Call
  \/ StrategyA_Enter
  \/ StrategyA_Loop
  \/ HostAddResolves
  \/ HostAddFails
  \/ StrategyA_DelayDone
  \/ AfterA
  \/ StrategyB_Loop
  \/ SelectAbsent
  \/ SelectSet
  \/ SelectDelayDone
  \/ QtyAbsent
  \/ QtySet
  \/ QtyDelayDone
  \/ BtnAbsent
  \/ BtnClick
  \/ BtnDelayDone
  \/ DomLookupThrows
  \/ DomDispatchThrows
  \/ AfterB
  \/ CompleteSilently
  \/ CompleteSuccess
  \/ ToastHide

Spec == Init /\ [][Next]_vars

\* a host add call that is awaited settles
HostAddSettles == HostAddResolves \/ HostAddFails

\* a timer that was scheduled fires: the delays of the strategies and the
\* hiding of the toast
TimerFires ==
  \/ StrategyA_DelayDone
  \/ SelectDelayDone
  \/ QtyDelayDone
  \/ BtnDelayDone
  \/ ToastHide

\* the invocation's own code runs on: whatever is not waiting for the host
\* or for a timer
OwnStep ==
  \/ Call
  \/ StrategyA_Enter
  \/ StrategyA_Loop
  \/ AfterA
  \/ StrategyB_Loop
  \/ SelectAbsent
  \/ SelectSet
  \/ QtyAbsent
  \/ QtySet
  \/ BtnAbsent
  \/ BtnClick
  \/ DomLookupThrows
  \/ DomDispatchThrows
  \/ AfterB
  \/ CompleteSilently
  \/ CompleteSuccess

\* batches of items of each kind: dropped by the filter of line 350
\* (quantity 0), kept by it and skipped by the strategies (empty identifier),
\* and taken up by them
FairBatches ==
  SeqsUpTo([variantId : {Str(""), Num("101")}, quantity : {0, 1}], MaxItems)

FairInit == Init /\ items \in FairBatches

\* the same behaviours, of a page whose host add calls settle and whose
\* timers fire, the event loop running the invocation whenever it can
FairSpec ==
  /\ FairInit
  /\ [][Next]_vars
  /\ WF_vars(HostAddSettles)
  /\ WF_vars(TimerFires)
  /\ WF_vars(OwnStep)

---------------------------------------------------------------------------
(* The caller invokes again: handleBulkAdd of widget.tsx (lines 86-92)     *)
(* calls addToCartBulk on every click of the Add button, and nothing of an *)
(* invocation outlives it but what it did to the page.                     *)

\* the batches the widget hands over: VariantGrid's handleBulkAdd keeps the
\* variants with a quantity > 0 and passes their numeric ids, and calls
\* onBulkAdd only for a non-empty list
WidgetBatches ==
  SeqsUpTo([variantId : {Num("101")}, quantity : Quantities \ {0}], MaxItems)
    \ {<<>>}

\* a storefront page with the host cart API, or no page at all (the widget
\* rendered outside a browser), and a batch of the widget
InitAgain ==
  /\ Init
  /\ env.cartApi \/ ~env.window
  /\ items \in WidgetBatches

\* the invocations started so far that had a valid item
Invocations == Cardinality({p \in DOMAIN trace : trace[p].op = "startA"})

\* the same batch is handed to addToCartBulk a second time, after a first
\* invocation that Strategy A completed, whose notification was dispatched
\* and whose toast has gone
Reinvoke ==
  /\ pc = "done"
  /\ resA = "true"
  /\ toastTimers = 0
  /\ Len(events) = 1
  /\ Invocations = 1
  /\ pc' = "call"
  /\ validItems' = <<>>
  /\ idx' = 0
  /\ added' = 0
  /\ success' = FALSE
  /\ resA' = "none"
  /\ resB' = "none"
  /\ resC' = "none"
  /\ UNCHANGED <<otherVars, env, items, trace, location, toast, toastTimers, events>>

NextAgain ==
  \/ Next
  \/ Reinvoke

SpecAgain == InitAgain /\ [][NextAgain]_vars

---------------------------------------------------------------------------
(* showToast, lines 232-240, with time: every successful invocation calls  *)
(* it once (line 372), at whatever time the invocation gets there, and     *)
(* each call on a page with a #cart-toast element schedules its own hide   *)
(* timer (lines 237-239), which nothing ever clears.                       *)

\* line 239: the delay of the hide timer, in ms
ToastMs == 3000

\* the step of the clock, in ms
TickMs == 1000

\* the clock stops here
MaxTime == 6000

\* the calls of showToast considered
MaxShows == 2

\* no invocation of addToCartBulk is modelled step by step: the page is
\* there, its toast hidden
CartIdle ==
  /\ env = [window |-> TRUE, cartApi |-> FALSE]
  /\ items = <<>>
  /\ pc = "done"
  /\ validItems = <<>>
  /\ idx = 0
  /\ added = 0
  /\ success = FALSE
  /\ resA = "none"
  /\ resB = "none"
  /\ resC = "none"
  /\ trace = <<>>
  /\ location = ""
  /\ toast = [display |-> "none", text |-> ""]
  /\ toastTimers = 0
  /\ events = <<>>

ToastInit ==
  /\ CartIdle
  /\ TimeIdle
  /\ ApiIdle
  /\ LaterIdle

\* line 371, for a total quantity q
MessageFor(q) == NatToStr(q) \o " produto(s) adicionado(s) ao carrinho!"

\* showToast(message) at time now: el tells whether getElementById found
\* the element (line 234)
showToast(message, el) ==
  /\ shows' = Append(shows, [text |-> message, at |-> now, el |-> el])
  /\ IF el
     THEN /\ toast' = [display |-> "block", text |-> message]
          /\ toastDue' = Append(toastDue, now + ToastMs)
          /\ toastTimers' = toastTimers + 1
     ELSE UNCHANGED <<toast, toastDue, toastTimers>>

\* an invocation of addToCartBulk succeeds and reaches line 372
ShowToastCall ==
  /\ Len(shows) < MaxShows
  /\ \E q \in 1..MaxQty, el \in BOOLEAN : showToast(MessageFor(q), el)
  /\ UNCHANGED <<apiVars, laterVars, now, env, items, pc, validItems, idx, added, success,
                 resA, resB, resC, trace, location, events>>

\* lines 237-239: the earliest pending timer is due and hides the element
ToastTimerFires ==
  /\ toastDue # <<>>
  /\ Head(toastDue) <= now
  /\ toast' = [toast EXCEPT !.display = "none"]
  /\ toastDue' = Tail(toastDue)
  /\ toastTimers' = toastTimers - 1
  /\ UNCHANGED <<apiVars, laterVars, now, shows, env, items, pc, validItems, idx, added,
                 success, resA, resB, resC, trace, location, events>>

\* time passes, up to the next timer that is due
Tick ==
  /\ now < MaxTime
  /\ toastDue # <<>> => Head(toastDue) > now
  /\ now' = IF toastDue # <<>> /\ Head(toastDue) < now + TickMs
            THEN Head(toastDue) ELSE now + TickMs
  /\ UNCHANGED <<apiVars, laterVars, cartVars, toastDue, shows>>

ToastNext ==
  \/ ShowToastCall
  \/ ToastTimerFires
  \/ Tick

ToastSpec == ToastInit /\ [][ToastNext]_vars

---------------------------------------------------------------------------
(* NuvemshopAPIService.getProductVariants, src/src/services/nuvemshop.ts   *)
(* lines 112-140: one call, the answers of the API drawn step by step.     *)

\* line 116
MAX_RETRIES == 3

\* line 117
BASE_DELAY_MS == 500

ProductIds == {"999", "7"}

Pages == {1, 2}

\* this.userId is undefined until the service is configured or authenticated
UserIds == {JsUndefined, Num("42")}

\* the bodies the API may answer with: lists of variant ids
Datas == {<<>>, <<101>>}

\* what axios rejects with: an HTTP error with its status, or an error
\* without a response (network failure, the 15000 ms timeout)
AxiosErrors ==
  {[s |-> "http", n |-> 429], [s |-> "http", n |-> 500], [s |-> "network", n |-> 0]}

\* one entry of apiLog: a request ("get": page n, url s), a successful
\* response ("ok": body d), a failed one ("err": kind s, status n), a sleep
\* ("sleep": n ms); a is the value of attempt
ApiEv(op, a, n, s, d) == [op |-> op, a |-> a, n |-> n, s |-> s, d |-> d]

NoResult == [kind |-> "none", s |-> "", n |-> 0, d |-> <<>>]

\* line 122: the template literal of the request path
VariantsUrl == "/v1/" \o Interp(userId) \o "/products/" \o productId \o "/variants"

\* lines 121-124
GetRequest(a) == ApiEv("get", a, page, VariantsUrl, <<>>)

ApiInit ==
  /\ CartIdle
  /\ TimeIdle
  /\ LaterIdle
  /\ apiPc = "idle"
  /\ productId \in ProductIds
  /\ page \in Pages
  /\ userId \in UserIds
  /\ attempt = 0
  /\ apiLog = <<>>
  /\ apiResult = NoResult

\* the loop is entered (line 119) and the first request issued
GetProductVariants ==
  /\ apiPc = "idle"
  /\ attempt' = 0
  /\ apiLog' = Append(apiLog, GetRequest(0))
  /\ apiPc' = "get"
  /\ UNCHANGED <<cartVars, timeVars, laterVars, productId, page, userId, apiResult>>

\* line 125: the request resolves and its data is returned
GetResolves ==
  /\ apiPc = "get"
  /\ \E d \in Datas :
       /\ apiLog' = Append(apiLog, ApiEv("ok", attempt, 200, "", d))
       /\ apiResult' = [kind |-> "data", s |-> "", n |-> 200, d |-> d]
  /\ apiPc' = "returned"
  /\ UNCHANGED <<cartVars, timeVars, laterVars, productId, page, userId, attempt>>

\* line 129
delay(a) == BASE_DELAY_MS * (2 ^ a)

\* a retry on any HTTP error
ShouldRetry_AnyStatus(e, a) == e.s = "http" /\ a < MAX_RETRIES

\* line 128
ShouldRetry(e, a) == e.n = 429 /\ a < MAX_RETRIES

\* lines 126-137: the request rejects; on 429 with retries left the call
\* sleeps (line 133), otherwise the error is rethrown (line 136)
GetFails ==
  /\ apiPc = "get"
  /\ \E e \in AxiosErrors :
       IF ShouldRetry(e, attempt)
       THEN /\ apiLog' = apiLog \o <<ApiEv("err", attempt, e.n, e.s, <<>>),
                                     ApiEv("sleep", attempt, delay(attempt), "", <<>>)>>
            /\ apiPc' = "sleep"
            /\ UNCHANGED apiResult
       ELSE /\ apiLog' = Append(apiLog, ApiEv("err", attempt, e.n, e.s, <<>>))
            /\ apiResult' = [kind |-> "error", s |-> e.s, n |-> e.n, d |-> <<>>]
            /\ apiPc' = "thrown"
  /\ UNCHANGED <<cartVars, timeVars, laterVars, productId, page, userId, attempt>>

\* the sleep is over: continue (line 134), attempt++ and, the loop condition
\* of line 119 holding, the next request; line 139 otherwise
SleepDone ==
  /\ apiPc = "sleep"
  /\ attempt' = attempt + 1
  /\ IF attempt' <= MAX_RETRIES
     THEN /\ apiLog' = Append(apiLog, GetRequest(attempt'))
          /\ apiPc' = "get"
          /\ UNCHANGED apiResult
     ELSE /\ apiResult' = [kind |-> "error", s |-> "max", n |-> 0, d |-> <<>>]
          /\ apiPc' = "thrown"
          /\ UNCHANGED apiLog
  /\ UNCHANGED <<cartVars, timeVars, laterVars, productId, page, userId>>

ApiNext ==
  \/ GetProductVariants
  \/ GetResolves
  \/ GetFails
  \/ SleepDone

ApiSpec == ApiInit /\ [][ApiNext]_vars

---------------------------------------------------------------------------
(* NuvemshopAPIService.searchVariantsBySku, src/src/services/nuvemshop.ts  *)
(* lines 185-227: calls arrive over time, the debounce timer fires, the    *)
(* requests it issues are answered or fail.                                *)

\* line 225: the delay of the debounce timer, in ms
DebounceMs == 300

\* line 219: 5 * 60 * 1000, the life of a cache entry, in ms
CacheTtlMs == 300000

\* the calls of searchVariantsBySku of one behaviour
MaxSkuCalls == 3

\* the step of the clock, in ms
SkuStepMs == 100

\* the time up to which the clock runs
MaxSkuTime == 301000

\* the longest a request takes to be answered, in ms
MaxSkuWait == 100

SkuPrefixes == {"CAMISETA", "CALCA"}

\* the API's answer to a search changes as the catalogue does: the variants
\* found for prefix q in version v of the catalogue
SkuVersions == {1, 2}

Variants(q, v) == [q |-> q, v |-> v]

NoVariants == [q |-> "", v |-> 0]

NoTimer == [set |-> FALSE, due |-> 0]

\* lines 186 and 217: the template literal of the cache key
SkuCacheKey(prefix) == "sku:" \o prefix

\* this.cache.get(key): the entries under key (one at most)
CacheGet(key) == {e \in cache : e.key = key}

\* this.cache.set(key, {data, expiresAt})
CacheSet(key, data, expiresAt) ==
  {e \in cache : e.key # key}
    \cup {[key |-> key, data |-> data, expiresAt |-> expiresAt]}

\* line 188
CacheHit(key) == \E e \in CacheGet(key) : now < e.expiresAt

\* line 212: the template literal of the request path
SkuUrl == "/v1/" \o Interp(userId) \o "/products/variants"

\* the service has been constructed with its credentials (lines 37-39)
SkuInit ==
  /\ CartIdle
  /\ now = 0
  /\ toastDue = <<>>
  /\ shows = <<>>
  /\ apiPc = "idle"
  /\ productId = ""
  /\ page = 1
  /\ userId = Num("42")
  /\ attempt = 0
  /\ apiLog = <<>>
  /\ apiResult = NoResult
  /\ LaterIdle

\* a promise searchVariantsBySku returned: the prefix it was asked for, when,
\* whether the cache answered, its state, the data it resolved with, the
\* request whose outcome settled it (0: none) and how many times one of its
\* resolve and reject functions was called
SkuPromise(prefix, hit, state, data, n) ==
  [prefix |-> prefix, at |-> now, hit |-> hit, state |-> state, data |-> data,
   via |-> 0, n |-> n]

\* lines 185-226, a call of searchVariantsBySku(skuPrefix): answered from the
\* cache (lines 188-190), or queued behind a restarted timer (lines 192-225).
\* A timer that is due fires before any call made at the same instant.
SearchVariantsBySku ==
  /\ Len(promises) < MaxSkuCalls
  /\ skuDebounceTimer.set => now < skuDebounceTimer.due
  /\ \E skuPrefix \in SkuPrefixes :
       IF CacheHit(SkuCacheKey(skuPrefix))
       THEN /\ \E e \in CacheGet(SkuCacheKey(skuPrefix)) :
                 promises' = Append(promises,
                               SkuPromise(skuPrefix, TRUE, "resolved", e.data, 1))
            /\ UNCHANGED <<pendingSkuPrefix, pendingSkuResolvers,
                           pendingSkuRejecters, skuDebounceTimer>>
       ELSE /\ pendingSkuPrefix' = skuPrefix
            /\ promises' = Append(promises,
                             SkuPromise(skuPrefix, FALSE, "pending", NoVariants, 0))
            /\ pendingSkuResolvers' = Append(pendingSkuResolvers, Len(promises) + 1)
            /\ pendingSkuRejecters' = Append(pendingSkuRejecters, Len(promises) + 1)
            /\ skuDebounceTimer' = [set |-> TRUE, due |-> now + DebounceMs]
  /\ UNCHANGED <<cartVars, timeVars, apiVars, afterSkuVars, cache, requests>>

\* the timer's callback leaves the pending resolvers and rejecters in place
SkuTimerFires_KeepsPending ==
  /\ skuDebounceTimer.set
  /\ now = skuDebounceTimer.due
  /\ requests' = Append(requests,
                   [prefix |-> pendingSkuPrefix, url |-> SkuUrl, at |-> now,
                    resolvers |-> pendingSkuResolvers,
                    rejecters |-> pendingSkuRejecters,
                    outcome |-> "pending", data |-> NoVariants,
                    done |-> 0, calls |-> 0, ord |-> 0])
  /\ skuDebounceTimer' = NoTimer
  /\ UNCHANGED <<cartVars, timeVars, apiVars, afterSkuVars, cache, pendingSkuPrefix, promises,
                 pendingSkuResolvers, pendingSkuRejecters>>

\* lines 202-215: the timer fires; its callback takes the pending resolvers
\* and rejecters and the pending prefix, and issues the request
SkuTimerFires ==
  /\ skuDebounceTimer.set
  /\ now = skuDebounceTimer.due
  /\ requests' = Append(requests,
                   [prefix |-> pendingSkuPrefix, url |-> SkuUrl, at |-> now,
                    resolvers |-> pendingSkuResolvers,
                    rejecters |-> pendingSkuRejecters,
                    outcome |-> "pending", data |-> NoVariants,
                    done |-> 0, calls |-> 0, ord |-> 0])
  /\ pendingSkuResolvers' = <<>>
  /\ pendingSkuRejecters' = <<>>
  /\ skuDebounceTimer' = NoTimer
  /\ UNCHANGED <<cartVars, timeVars, apiVars, afterSkuVars, cache, pendingSkuPrefix, promises>>

\* request r is answered with outcome and data: when (done), after how many
\* calls of searchVariantsBySku (calls) and as which of the answers (ord)
Answered(r, outcome, data) ==
  requests' =
    [requests EXCEPT
       ![r] = [@ EXCEPT
                 !.outcome = outcome, !.data = data, !.done = now,
                 !.calls = Len(promises),
                 !.ord = 1 + Cardinality({s \in DOMAIN requests :
                                           requests[s].outcome # "pending"})]]

\* the promises of ps settle as state with data, through request r
Settle(ps, r, state, data) ==
  promises' =
    [i \in DOMAIN promises |->
       IF \E k \in DOMAIN ps : ps[k] = i
       THEN [promises[i] EXCEPT
               !.state = IF promises[i].state = "pending" THEN state ELSE @,
               !.data = IF promises[i].state = "pending" THEN data ELSE @,
               !.via = IF promises[i].state = "pending" THEN r ELSE @,
               !.n = @ + Cardinality({k \in DOMAIN ps : ps[k] = i})]
       ELSE promises[i]]

\* lines 216-221: a request is answered; the answer is cached under the
\* prefix of the request and handed to every resolver
SkuGetResolves ==
  /\ \E r \in DOMAIN requests, v \in SkuVersions :
       /\ requests[r].outcome = "pending"
       /\ LET data == Variants(requests[r].prefix, v) IN
            /\ cache' = CacheSet(SkuCacheKey(requests[r].prefix), data,
                                 now + CacheTtlMs)
            /\ Settle(requests[r].resolvers, r, "resolved", data)
            /\ Answered(r, "ok", data)
  /\ UNCHANGED <<cartVars, timeVars, apiVars, afterSkuVars, pendingSkuPrefix,
                 pendingSkuResolvers, pendingSkuRejecters, skuDebounceTimer>>

\* lines 222-224: a request fails; the error is handed to every rejecter
SkuGetFails ==
  /\ \E r \in DOMAIN requests :
       /\ requests[r].outcome = "pending"
       /\ Settle(requests[r].rejecters, r, "rejected", NoVariants)
       /\ Answered(r, "err", NoVariants)
  /\ UNCHANGED <<cartVars, timeVars, apiVars, afterSkuVars, cache, pendingSkuPrefix,
                 pendingSkuResolvers, pendingSkuRejecters, skuDebounceTimer>>

\* the requests that are not answered yet
SkuPending == {r \in DOMAIN requests : requests[r].outcome = "pending"}

\* time passes while the search is under way: by a step of the clock, never
\* past the instant at which the timer is due, a request being answered
\* within MaxSkuWait
SkuTick ==
  /\ skuDebounceTimer.set \/ SkuPending # {}
  /\ skuDebounceTimer.set => now < skuDebounceTimer.due
  /\ \A r \in SkuPending : now + SkuStepMs <= requests[r].at + MaxSkuWait
  /\ now' = IF skuDebounceTimer.set /\ skuDebounceTimer.due < now + SkuStepMs
            THEN skuDebounceTimer.due ELSE now + SkuStepMs
  /\ UNCHANGED <<cartVars, apiVars, laterVars, toastDue, shows>>

\* time passes while nothing is under way: by the life of a cache entry, or
\* a step less than that
SkuIdles ==
  /\ ~skuDebounceTimer.set
  /\ SkuPending = {}
  /\ \E d \in {CacheTtlMs - SkuStepMs, CacheTtlMs} :
       /\ now + d <= MaxSkuTime
       /\ now' = now + d
  /\ UNCHANGED <<cartVars, apiVars, laterVars, toastDue, shows>>

SkuNext ==
  \/ SearchVariantsBySku
  \/ SkuTimerFires
  \/ SkuGetResolves
  \/ SkuGetFails
  \/ SkuTick
  \/ SkuIdles

SkuSpec == SkuInit /\ [][SkuNext]_vars

---------------------------------------------------------------------------
(* The token store and the data-deletion webhook of the server.            *)
(* The store has two sources: src/src/store/tokens.ts and the one with     *)
(* encryption, src/src/i18n/index.ts lines 31-178; src/src/index.ts        *)
(* imports it as './store/tokens'. The webhook is src/src/index.ts lines   *)
(* 599-630 behind src/src/middleware/webhookHmac.ts.                       *)

\* the calls of saveToken, getToken and removeToken of one behaviour
MaxStoreOps == 3

\* the requests to the webhook of one behaviour
MaxHooks == 1

StoreImpls == {"src/store/tokens.ts", "src/i18n/index.ts"}

StoreUsers == {1, 2}

AccessTokens == <<"tokA", "tokB">>

\* the values of crypto.randomBytes(12) (i18n/index.ts line 67)
Ivs == {0, 1}

\* the ciphertexts of a token
CipherMod == 4

\* TOKEN_ENCRYPTION_KEY: unset; 64 hexadecimal characters; some other text
TokenKeys ==
  {[set |-> FALSE, valid |-> FALSE, k |-> 0],
   [set |-> TRUE, valid |-> TRUE, k |-> 1],
   [set |-> TRUE, valid |-> FALSE, k |-> 0]}

\* the place of a token in AccessTokens, from 0
TokenCode(t) == (CHOOSE i \in DOMAIN AccessTokens : AccessTokens[i] = t) - 1

\* encryptToken (i18n/index.ts lines 66-76): the ciphertext and the
\* authentication tag of plaintext under key k and iv
encryptToken(plaintext, k, iv) ==
  [iv |-> iv,
   encrypted |-> (TokenCode(plaintext) + k + iv) % CipherMod,
   authTag |-> (TokenCode(plaintext) + 2 * k + 3 * iv + 1) % CipherMod]

\* decryptToken (lines 78-90): the code of the plaintext; decipher.final()
\* throws when the tag does not authenticate it
DecryptedCode(record, k) ==
  (record.encrypted + 2 * CipherMod - k - record.iv) % CipherMod

DecryptThrows(record, k) ==
  \/ DecryptedCode(record, k) + 1 \notin DOMAIN AccessTokens
  \/ record.authTag
       # (DecryptedCode(record, k) + 2 * k + 3 * record.iv + 1) % CipherMod

decryptToken(record, k) == AccessTokens[DecryptedCode(record, k) + 1]

\* a record of the file: { userId, accessToken } or
\* { userId, iv, authTag, encrypted } (installedAt left out)
PlainRecord(u, t) ==
  [userId |-> u, enc |-> FALSE, accessToken |-> t, iv |-> 0, authTag |-> 0,
   encrypted |-> 0]

EncryptedRecord(u, e) ==
  [userId |-> u, enc |-> TRUE, accessToken |-> "", iv |-> e.iv,
   authTag |-> e.authTag, encrypted |-> e.encrypted]

\* lines 92-94
isEncrypted(record) == record.enc

\* records[userId]
RecordsOf(u) == {r \in tokensFile.records : r.userId = u}

\* records[userId] = record, on the records read (none when the file cannot
\* be read), then atomicWrite
WriteRecord(record) ==
  tokensFile' =
    [exists |-> TRUE,
     records |-> {r \in tokensFile.records : r.userId # record.userId}
                   \cup {record}]

\* one entry of storeLog: the call, its arguments, what it returned and
\* whether it threw
StoreEv(op, u, t, ret, threw) ==
  [op |-> op, u |-> u, t |-> t, ret |-> ret, threw |-> threw]

ServerInit ==
  /\ CartIdle
  /\ TimeIdle
  /\ ApiIdle
  /\ SkuIdle
  /\ PairIdle
  /\ GridIdle
  /\ storeImpl \in StoreImpls
  /\ tokenKey \in TokenKeys
  /\ tokensFile = [exists |-> FALSE, records |-> {}]
  /\ storeLog = <<>>
  /\ webhookSecret \in {"", "s3cret"}
  /\ nodeEnv \in {"development", "production"}
  /\ hookLog = <<>>

\* saveToken(userId, accessToken): tokens.ts lines 24-32; i18n/index.ts lines
\* 107-126, where getEncryptionKey throws on a key that is not 32 bytes
\* (lines 60-62) before anything is written
saveToken(u, t) ==
  IF storeImpl = "src/i18n/index.ts" /\ tokenKey.set
  THEN IF tokenKey.valid
       THEN /\ \E iv \in Ivs :
                 WriteRecord(EncryptedRecord(u, encryptToken(t, tokenKey.k, iv)))
            /\ storeLog' = Append(storeLog,
                             StoreEv("saveToken", u, t, JsUndefined, FALSE))
       ELSE /\ storeLog' = Append(storeLog,
                             StoreEv("saveToken", u, t, JsUndefined, TRUE))
            /\ UNCHANGED tokensFile
  ELSE /\ WriteRecord(PlainRecord(u, t))
       /\ storeLog' = Append(storeLog,
                        StoreEv("saveToken", u, t, JsUndefined, FALSE))

\* what getToken(userId) returns: tokens.ts lines 34-41; i18n/index.ts lines
\* 128-148, every throw ending in null
TokenOf(u) ==
  IF ~tokensFile.exists \/ RecordsOf(u) = {}
  THEN JsNull
  ELSE LET record == CHOOSE r \in RecordsOf(u) : TRUE IN
         IF storeImpl = "src/i18n/index.ts" /\ isEncrypted(record)
         THEN IF ~tokenKey.set \/ ~tokenKey.valid \/ DecryptThrows(record, tokenKey.k)
              THEN JsNull
              ELSE Str(decryptToken(record, tokenKey.k))
         ELSE Str(record.accessToken)

getToken(u) ==
  /\ storeLog' = Append(storeLog, StoreEv("getToken", u, "", TokenOf(u), FALSE))
  /\ UNCHANGED tokensFile

\* removeToken(userId): tokens.ts lines 43-50, i18n/index.ts lines 150-157;
\* a file that cannot be read is left alone
removeToken(u) ==
  /\ tokensFile' =
       IF tokensFile.exists
       THEN [tokensFile EXCEPT !.records = {r \in @ : r.userId # u}]
       ELSE tokensFile
  /\ storeLog' = Append(storeLog, StoreEv("removeToken", u, "", JsUndefined, FALSE))

SaveToken ==
  /\ Len(storeLog) < MaxStoreOps
  /\ \E u \in StoreUsers, i \in DOMAIN AccessTokens : saveToken(u, AccessTokens[i])
  /\ UNCHANGED <<cartVars, timeVars, apiVars, skuVars, afterServerVars, storeImpl, tokenKey,
                 webhookSecret, nodeEnv, hookLog>>

GetToken ==
  /\ Len(storeLog) < MaxStoreOps
  /\ \E u \in StoreUsers : getToken(u)
  /\ UNCHANGED <<cartVars, timeVars, apiVars, skuVars, afterServerVars, storeImpl, tokenKey,
                 webhookSecret, nodeEnv, hookLog>>

RemoveToken ==
  /\ Len(storeLog) < MaxStoreOps
  /\ \E u \in StoreUsers : removeToken(u)
  /\ UNCHANGED <<cartVars, timeVars, apiVars, skuVars, afterServerVars, storeImpl, tokenKey,
                 webhookSecret, nodeEnv, hookLog>>

\* a JSON text is a sequence of lexical tokens, " " the white space between
\* them; a JSON object is the sequence of its <<key, value>> pairs
HookObjects ==
  {<<>>,
   <<<<"store_id", "1">>>>,
   <<<<"store_id", "1">>, <<"customer_id", "7">>>>,
   <<<<"store_id", "2">>, <<"customer_id", "7">>>>}

\* the text of the pairs of an object from the k-th on, sep between the
\* tokens where white space may stand
RECURSIVE Members(_, _, _)
Members(obj, k, sep) ==
  IF k > Len(obj) THEN <<>>
  ELSE (IF k > 1 THEN <<",">> \o sep ELSE <<>>)
         \o <<obj[k][1], ":">> \o sep \o <<obj[k][2]>>
         \o Members(obj, k + 1, sep)

\* JSON.stringify(obj): no white space
JsonStringify(obj) == <<"{">> \o Members(obj, 1, <<>>) \o <<"}">>

\* the same object as a sender may write it, with white space
JsonSpaced(obj) == <<"{">> \o Members(obj, 1, <<" ">>) \o <<"}">>

\* the bodies the webhook receives
RawBodies == {JsonStringify(o) : o \in HookObjects} \cup {JsonSpaced(o) : o \in HookObjects}

NotSpace(tok) == tok # " "

\* the pairs read from the tokens toks (white space removed) from the k-th on
RECURSIVE Pairs(_, _)
Pairs(toks, k) ==
  IF k + 2 > Len(toks) \/ toks[k + 1] # ":" THEN <<>>
  ELSE <<<<toks[k], toks[k + 2]>>>> \o Pairs(toks, k + 4)

\* JSON.parse(raw), what express.json() leaves in req.body
JsonParse(raw) == Pairs(SelectSeq(raw, NotSpace), 2)

\* obj[name], "" standing for undefined
Field(obj, name) ==
  IF \E k \in DOMAIN obj : obj[k][1] = name
  THEN obj[CHOOSE k \in DOMAIN obj : obj[k][1] = name][2]
  ELSE ""

\* stands for the number NaN
NaN == 0 - 1000

\* parseInt(s, 10) of a text: digits, with a sign or a fraction, or none
ParseInt(s) ==
  IF \E n \in 0..9 : NatToStr(n) = s
  THEN CHOOSE n \in 0..9 : NatToStr(n) = s
  ELSE IF \E n \in 0..9 : "-" \o NatToStr(n) = s
  THEN 0 - (CHOOSE n \in 0..9 : "-" \o NatToStr(n) = s)
  ELSE IF \E n \in 0..9, f \in 0..9 : NatToStr(n) \o "." \o NatToStr(f) = s
  THEN CHOOSE n \in 0..9 : \E f \in 0..9 : NatToStr(n) \o "." \o NatToStr(f) = s
  ELSE NaN

\* createHmac('sha256', secret).update(body).digest('base64'): the 44
\* characters that stand for the MAC of body under secret
Base64Hmac(secret, body) == [len |-> 44, key |-> secret, msg |-> body]

\* a header value that is no base64 MAC
Garbage == [len |-> 7, key |-> "", msg |-> <<>>]

NoHeader == [len |-> 0, key |-> "", msg |-> <<>>]

\* crypto.timingSafeEqual(a, b) inside the try of lines 35-43: it throws on
\* buffers of different length, and isValid stays false
timingSafeEqual(a, b) == a.len = b.len /\ a = b

\* the values of the X-Linkedstore-HMAC-SHA256 header a sender of raw may
\* put: none, the MAC of the body it sends or of its re-serialization,
\* under the secret or another, or something else
Headers(raw) ==
  {NoHeader, Garbage}
    \cup {Base64Hmac(s, b) : s \in {"s3cret", "0ther"},
                             b \in {raw, JsonStringify(JsonParse(raw))}}

\* webhookHmac.ts line 29: req.rawBody is set nowhere (index.ts line 372 is
\* a plain express.json()), so the body is JSON.stringify(req.body)
HmacBody(raw) == JsonStringify(JsonParse(raw))

\* webhookHmac.ts lines 9-51: "next" or the status it answers with
webhookHmac(signature, raw) ==
  IF webhookSecret = ""
  THEN IF nodeEnv # "production" THEN "next" ELSE "500"
  ELSE IF signature = NoHeader THEN "401"
  ELSE IF timingSafeEqual(signature, Base64Hmac(webhookSecret, HmacBody(raw)))
       THEN "next" ELSE "401"

\* one entry of hookLog: the body and header received, the status answered,
\* whether the handler ran, the user whose token it removed (NaN: none) and
\* whether the token file changed
HookEv(raw, signature, status, ran, removed) ==
  [raw |-> raw, signature |-> signature, status |-> status, ran |-> ran,
   removed |-> removed, changed |-> tokensFile' # tokensFile]

\* POST /api/webhooks/data-deletion: index.ts lines 599-630 behind
\* webhookHmac
DataDeletionWebhook ==
  /\ Len(hookLog) < MaxHooks
  /\ \E raw \in RawBodies :
       \E signature \in Headers(raw) :
         LET store_id == Field(JsonParse(raw), "store_id")
             customer_id == Field(JsonParse(raw), "customer_id")
             mw == webhookHmac(signature, raw)
         IN  IF mw # "next"
             THEN /\ UNCHANGED <<tokensFile, storeLog>>
                  /\ hookLog' = Append(hookLog, HookEv(raw, signature, mw, FALSE, NaN))
             ELSE IF store_id = "" \/ customer_id = ""
             THEN /\ UNCHANGED <<tokensFile, storeLog>>
                  /\ hookLog' = Append(hookLog, HookEv(raw, signature, "400", TRUE, NaN))
             ELSE /\ removeToken(ParseInt(store_id))
                  /\ hookLog' = Append(hookLog,
                                  HookEv(raw, signature, "200", TRUE, ParseInt(store_id)))
  /\ UNCHANGED <<cartVars, timeVars, apiVars, skuVars, afterServerVars, storeImpl, tokenKey,
                 webhookSecret, nodeEnv>>

ServerNext ==
  \/ SaveToken
  \/ GetToken
  \/ RemoveToken
  \/ DataDeletionWebhook

ServerSpec == ServerInit /\ [][ServerNext]_vars

---------------------------------------------------------------------------
(* VariantGrid: src/src/components/VariantGrid/VariantGrid.tsx, and its    *)
(* other source src/unnamed/part_001, the default export the widget        *)
(* renders (src/src/widget.tsx line 97).                                   *)

\* the edits and clicks of one behaviour
MaxGridSteps == 4

GridImpls == {"src/components/VariantGrid/VariantGrid.tsx", "src/unnamed/part_001"}

\* the variations shown: one with stock, one nearly out, one out of stock
GridVariants ==
  {[variantId |-> 101, stock |-> 3, stock_management |-> TRUE],
   [variantId |-> 102, stock |-> 1, stock_management |-> TRUE],
   [variantId |-> 103, stock |-> 0, stock_management |-> TRUE]}

\* what may be typed into a quantity input
GridInputs == {"abc", "-1", "0", "1", "5", "2.7"}

\* the prop maxQuantityPerVariant: absent or a limit
GridLimits == {[given |-> FALSE, v |-> 0], [given |-> TRUE, v |-> 2]}

Min(a, b) == IF a < b THEN a ELSE b

Max(a, b) == IF a < b THEN b ELSE a

GridInit ==
  /\ CartIdle
  /\ TimeIdle
  /\ ApiIdle
  /\ SkuIdle
  /\ PairIdle
  /\ ServerIdle
  /\ gridImpl \in GridImpls
  /\ maxQuantityPerVariant \in GridLimits
  /\ quantities = [v \in {} |-> 0]
  /\ gridLog = <<>>

\* disabled={isOutOfStock} of the input: VariantGrid.tsx lines 195 and 219,
\* part_001 lines 292-293 and 327
InputDisabled(variant) ==
  IF gridImpl = "src/unnamed/part_001"
  THEN variant.stock_management /\ variant.stock = 0
  ELSE variant.stock <= 0

\* the quantity handleQuantityChange stores for the text value:
\* VariantGrid.tsx lines 71-77, part_001 line 76
NewQuantity(stock, value) ==
  LET parsed == ParseInt(value) IN
    IF gridImpl = "src/unnamed/part_001"
    THEN Max(0, IF parsed = NaN THEN 0 ELSE parsed)
    ELSE IF parsed = NaN \/ parsed < 0 THEN 0
    ELSE Min(parsed,
             IF maxQuantityPerVariant.given
             THEN Min(maxQuantityPerVariant.v, stock) ELSE stock)

\* setQuantities((prev) => ({ ...prev, [variantId]: qty }))
SetQuantity(variantId, qty) ==
  [v \in DOMAIN quantities \cup {variantId} |->
     IF v = variantId THEN qty ELSE quantities[v]]

\* Object.values(q).reduce((sum, qty) => sum + (qty || 0), 0)
RECURSIVE SumOver(_, _)
SumOver(q, ids) ==
  IF ids = {} THEN 0
  ELSE LET v == CHOOSE x \in ids : TRUE IN q[v] + SumOver(q, ids \ {v})

\* VariantGrid.tsx lines 65-67, part_001 lines 59-61
totalSelected == SumOver(quantities, DOMAIN quantities)

\* Object.entries(q).filter(([, qty]) => qty > 0).map(...): the entries in
\* ascending order of their integer keys, as { variantId, quantity }
RECURSIVE ItemsOf(_, _)
ItemsOf(q, ids) ==
  IF ids = {} THEN <<>>
  ELSE LET v == CHOOSE x \in ids : \A y \in ids : x <= y IN
         (IF q[v] > 0 THEN <<[variantId |-> v, quantity |-> q[v]]>> ELSE <<>>)
           \o ItemsOf(q, ids \ {v})

\* the lists handleBulkAdd hands to onBulkAdd: VariantGrid.tsx lines 83-95
\* (only a list that is not empty), part_001 lines 81-95 (always)
BulkAddCalls ==
  LET cartItems == ItemsOf(quantities, DOMAIN quantities) IN
    IF gridImpl = "src/unnamed/part_001" \/ Len(cartItems) > 0
    THEN <<cartItems>> ELSE <<>>

\* the Add button is enabled whatever the total
AddButtonDisabled_Never == FALSE

\* disabled={totalSelected === 0}: VariantGrid.tsx line 265, part_001 line 431
AddButtonDisabled == totalSelected = 0

\* one entry of gridLog: an edit of the input of variant id to value, or a
\* click on the Add button with the quantities q at that moment and the
\* calls of onBulkAdd it made
GridEv(op, id, value, q, calls) ==
  [op |-> op, id |-> id, value |-> value, q |-> q, calls |-> calls]

\* onChange of a quantity input that is not disabled
QuantityChange ==
  /\ Len(gridLog) < MaxGridSteps
  /\ \E variant \in GridVariants, value \in GridInputs :
       /\ ~InputDisabled(variant)
       /\ quantities' = SetQuantity(variant.variantId,
                                    NewQuantity(variant.stock, value))
       /\ gridLog' = Append(gridLog,
                       GridEv("edit", variant.variantId, value, quantities', <<>>))
  /\ UNCHANGED <<cartVars, timeVars, apiVars, skuVars, serverVars, pairVars, gridImpl,
                 maxQuantityPerVariant>>

\* onClick of the Add button, when it is not disabled
BulkAddClick ==
  /\ Len(gridLog) < MaxGridSteps
  /\ ~AddButtonDisabled
  /\ gridLog' = Append(gridLog, GridEv("click", 0, "", quantities, BulkAddCalls))
  /\ UNCHANGED <<cartVars, timeVars, apiVars, skuVars, serverVars, pairVars, gridImpl,
                 maxQuantityPerVariant, quantities>>

GridNext ==
  \/ QuantityChange
  \/ BulkAddClick

GridSpec == GridInit /\ [][GridNext]_vars

---------------------------------------------------------------------------
(* Two invocations of addToCartBulk on one page without the host cart API: *)
(* the widget's handleBulkAdd (src/src/widget.tsx lines 86-92) calls           *)
(* addToCartBulk on every click and waits for nothing, so both run         *)
(* strategyDomManipulation (cart-injector.js lines 276-323) on the same    *)
(* controls. What runs between two awaits runs without interruption.       *)

\* the items of an invocation of the pair
MaxPairItems == 1

\* the step of the clock, in ms
PairStepMs == 50

\* the time up to which an invocation may be made
MaxPairTime == 200

Invs == {1, 2}

PairBatches ==
  SeqsUpTo([variantId : {Num("101"), Num("102")}, quantity : {1, 2}], MaxPairItems)
    \ {<<>>}

\* the page has an add button, and perhaps a variant select (with an option
\* for every variant) and a quantity input, each shared by the variants
\* (select.js-product-variants, input.js-product-quantity, lines 283, 297)
PairPages ==
  {c \in [select : BOOLEAN, input : BOOLEAN, button : BOOLEAN] : c.button}

PairInit ==
  /\ CartIdle
  /\ TimeIdle
  /\ ApiIdle
  /\ SkuIdle
  /\ ServerIdle
  /\ GridIdle
  /\ \E a \in PairBatches, b \in PairBatches :
       bulkCalls = <<[NotCalled EXCEPT !.items = a], [NotCalled EXCEPT !.items = b]>>
  /\ pageControls \in PairPages
  /\ selectValue = ""
  /\ qtyValue = "1"
  /\ clicks = <<>>

\* no other invocation is between two awaits
AloneRunning(i) ==
  \A j \in Invs : j # i => bulkCalls[j].pc \in {"idle", "wait", "done"}

\* the item invocation i is at
ItemOf(i) == bulkCalls[i].items[bulkCalls[i].idx]

\* await delay(ms), the loop going on at resume
Await(i, ms, resume) ==
  bulkCalls' = [bulkCalls EXCEPT ![i].pc = "wait", ![i].resume = resume,
                         ![i].due = now + ms]

\* handleBulkAdd calls addToCartBulk: Strategy A returns false at once
\* (lines 248-254) and the loop of Strategy B is entered
PairCall(i) ==
  /\ bulkCalls[i].pc = "idle"
  /\ AloneRunning(i)
  /\ now <= MaxPairTime
  /\ bulkCalls' = [bulkCalls EXCEPT ![i].pc = "select", ![i].idx = 1]
  /\ UNCHANGED <<cartVars, timeVars, apiVars, skuVars, serverVars, gridVars,
                 pageControls, selectValue, qtyValue, clicks>>

\* lines 278-292: the head of the loop and the variant select
PairSelect(i) ==
  /\ bulkCalls[i].pc = "select"
  /\ AloneRunning(i)
  /\ IF bulkCalls[i].idx > Len(bulkCalls[i].items)
     THEN /\ bulkCalls' = [bulkCalls EXCEPT ![i].pc = "done"]
          /\ UNCHANGED selectValue
     ELSE IF pageControls.select
     THEN /\ selectValue' = Interp(ItemOf(i).variantId)
          /\ Await(i, 300, "qty")
     ELSE /\ bulkCalls' = [bulkCalls EXCEPT ![i].pc = "qty"]
          /\ UNCHANGED selectValue
  /\ UNCHANGED <<cartVars, timeVars, apiVars, skuVars, serverVars, gridVars,
                 pageControls, qtyValue, clicks>>

\* lines 295-305: the quantity input
PairQty(i) ==
  /\ bulkCalls[i].pc = "qty"
  /\ AloneRunning(i)
  /\ IF pageControls.input
     THEN /\ qtyValue' = NatToStr(ItemOf(i).quantity)
          /\ Await(i, 100, "btn")
     ELSE /\ bulkCalls' = [bulkCalls EXCEPT ![i].pc = "btn"]
          /\ UNCHANGED qtyValue
  /\ UNCHANGED <<cartVars, timeVars, apiVars, skuVars, serverVars, gridVars,
                 pageControls, selectValue, clicks>>

\* lines 308-317: the add button is clicked, the controls holding what they
\* hold at that moment
PairBtn(i) ==
  /\ bulkCalls[i].pc = "btn"
  /\ AloneRunning(i)
  /\ clicks' = Append(clicks, [inv |-> i, item |-> ItemOf(i), at |-> now,
                               selectValue |-> selectValue, qtyValue |-> qtyValue])
  /\ Await(i, 300, "select")
  /\ UNCHANGED <<cartVars, timeVars, apiVars, skuVars, serverVars, gridVars,
                 pageControls, selectValue, qtyValue>>

\* the timer of a delay fires and the loop goes on; after the click's delay
\* with the next item
PairTimer(i) ==
  /\ bulkCalls[i].pc = "wait"
  /\ AloneRunning(i)
  /\ now = bulkCalls[i].due
  /\ bulkCalls' = [bulkCalls EXCEPT
                 ![i].pc = bulkCalls[i].resume,
                 ![i].idx = IF bulkCalls[i].resume = "select" THEN @ + 1 ELSE @]
  /\ UNCHANGED <<cartVars, timeVars, apiVars, skuVars, serverVars, gridVars,
                 pageControls, selectValue, qtyValue, clicks>>

\* the timers that are pending
PairDues == {bulkCalls[i].due : i \in {j \in Invs : bulkCalls[j].pc = "wait"}}

\* time passes while nothing runs, up to the next timer that is due
PairTick ==
  /\ \A i \in Invs : bulkCalls[i].pc \in {"idle", "wait", "done"}
  /\ \E i \in Invs : bulkCalls[i].pc \in {"idle", "wait"}
  /\ \A d \in PairDues : now < d
  /\ PairDues = {} => now < MaxPairTime
  /\ now' = IF \E d \in PairDues : d < now + PairStepMs
            THEN CHOOSE d \in PairDues : \A e \in PairDues : d <= e
            ELSE now + PairStepMs
  /\ UNCHANGED <<cartVars, apiVars, laterVars, toastDue, shows>>

PairNext ==
  \/ \E i \in Invs : PairCall(i)
  \/ \E i \in Invs : PairSelect(i)
  \/ \E i \in Invs : PairQty(i)
  \/ \E i \in Invs : PairBtn(i)
  \/ \E i \in Invs : PairTimer(i)
  \/ PairTick

PairSpec == PairInit /\ [][PairNext]_vars

---------------------------------------------------------------------------
(* Vocabulary of the properties *)

\* the LineItem invariant of the specification: variantId present, non-null
\* and non-empty, and quantity > 0
MeetsLineItemInvariant(i) ==
  /\ i.variantId \notin {JsUndefined, JsNull, Str("")}
  /\ i.quantity > 0

\* the ValidItems of the specification: the batch without the items that
\* fail the invariant, order kept
ValidItemsOfBatch == SelectSeq(items, MeetsLineItemInvariant)

Positions(op) == {p \in DOMAIN trace : trace[p].op = op}

Count(op) ==
  LET Is(e) == e.op = op
  IN Len(SelectSeq(trace, Is))

Happened(op) == \E p \in DOMAIN trace : trace[p].op = op

IsHostAdd(e) == e.op = "hostAdd"

\* the host add calls issued so far, in order
HostCalls == SelectSeq(trace, IsHostAdd)

\* host add calls issued and not yet settled
InFlight == Count("hostAdd") - Count("hostOk") - Count("hostErr")

DomOps == {"selSet", "selChange", "qtySet", "qtyInput", "qtyChange", "click"}

DomActionHappened == \E p \in DOMAIN trace : trace[p].op \in DomOps

\* the positions of an invocation inside strategyDomManipulation
StrategyBPositions ==
  {"B_loop", "B_select", "B_selDelay", "B_qty", "B_qtyDelay", "B_btn", "B_btnDelay"}

\* the first entry of a kind in trace
FirstOf(op) ==
  CHOOSE p \in DOMAIN trace :
    trace[p].op = op /\ \A q \in 1..(p - 1) : trace[q].op # op

---------------------------------------------------------------------------
(* C1: the strategies are started in the order A, B, C, each at most once; *)
(* B is started only after A has returned false, C only after A and B have *)
(* both returned false, and none is started after an earlier one has       *)
(* returned true.                                                          *)
C1_StrategyOrder ==
  /\ Count("startA") <= 1
  /\ Count("startB") <= 1
  /\ Count("startC") <= 1
  /\ Happened("startB") =>
       /\ Happened("startA")
       /\ FirstOf("startA") < FirstOf("startB")
       /\ resA = "false"
  /\ Happened("startC") =>
       /\ Happened("startB")
       /\ FirstOf("startB") < FirstOf("startC")
       /\ resA = "false"
       /\ resB = "false"
  /\ resA = "true" => ~Happened("startB") /\ ~Happened("startC")
  /\ resB = "true" => ~Happened("startC")

\* a run in which all three strategies ran: a host call failed, the DOM
\* strategy clicked nothing, the redirect was reached
C1_Witness ==
  /\ Happened("hostErr")
  /\ Happened("domItem")
  /\ Happened("startC")
  /\ resC = "true"

---------------------------------------------------------------------------
(* C2: an item with quantity <= 0 or without a variantId (undefined, null  *)
(* or empty) appears in no host add call, in no DOM action, not in the     *)
(* redirect query string, not in the notification's items and not in the   *)
(* reported totalQty.                                                      *)
C2_InvalidItemsExcluded ==
  /\ \A p \in DOMAIN trace :
       trace[p].k > 0 => MeetsLineItemInvariant(validItems[trace[p].k])
  /\ location # "" => location = "/cart/add?" \o JoinPairs(ValidItemsOfBatch)
  /\ \A e \in DOMAIN events :
       /\ events[e].items = ValidItemsOfBatch
       /\ events[e].totalQty = SumQty(ValidItemsOfBatch)

---------------------------------------------------------------------------
(* C3: for a batch that is empty or whose items all fail the LineItem      *)
(* invariant, addToCartBulk calls no host add, raises no DOM event and     *)
(* clicks nothing, does not navigate, shows no toast and dispatches no     *)
(* notification.                                                           *)
C3_NoValidItemNoEffect ==
  ValidItemsOfBatch = <<>> =>
    /\ ~Happened("hostAdd")
    /\ ~DomActionHappened
    /\ ~Happened("navigate")
    /\ location = ""
    /\ ~Happened("toast")
    /\ toast.display = "none"
    /\ events = <<>>

---------------------------------------------------------------------------
---------------------------------------------------------------------------
(* C5: when Strategy A has succeeded, Strategy B performs no DOM action    *)
(* and Strategy C no navigation, and the notification is dispatched        *)
(* exactly once, carrying the valid items of the batch.                    *)
C5_ASuccessNotifiesOnce ==
  resA = "true" =>
    /\ ~DomActionHappened
    /\ ~Happened("navigate")
    /\ Len(events) <= 1
    /\ pc = "done" =>
         /\ Len(events) = 1
         /\ events[1].items = ValidItemsOfBatch

---------------------------------------------------------------------------
(* C6: when the host add call for item k throws or rejects, no host add    *)
(* call is issued for a later item, Strategy A returns false although the  *)
(* calls before k resolved, and Strategy B is what runs next.              *)
C6_HostFailureAbortsA ==
  \A p \in Positions("hostErr") :
    /\ resA = "false"
    /\ \A q \in Positions("hostAdd") : q < p
    /\ \A q \in Positions("hostOk") : q < p /\ trace[q].k < trace[p].k
    /\ Len(trace) > p => trace[p + 1].op = "startB"
    /\ pc \notin {"afterA", "A_loop", "A_await", "A_delay"} => Len(trace) > p

\* the call for item 2 failed after the call for item 1 had resolved, and
\* Strategy B then processed an item
C6_Witness ==
  /\ \E p \in Positions("hostErr") : trace[p].k = 2
  /\ \E q \in Positions("hostOk") : trace[q].k = 1
  /\ Happened("domItem")

---------------------------------------------------------------------------
(* C7: without the host cart object or its add function, Strategy A issues *)
(* no call and returns false without raising, and Strategy B is what runs  *)
(* next.                                                                   *)
C7_NoCartApiFallsToB ==
  ~env.cartApi =>
    /\ ~Happened("hostAdd")
    /\ resA # "true"
    /\ Happened("startA") =>
         /\ resA = "false"
         /\ trace[1].op = "startA"
         /\ pc # "afterA" => (Len(trace) >= 2 /\ trace[2].op = "startB")

\* a page with a window and no cart API on which Strategy B clicked
C7_Witness ==
  /\ env.window
  /\ ~env.cartApi
  /\ resA = "false"
  /\ Happened("click")

---------------------------------------------------------------------------
---------------------------------------------------------------------------
(* C9: Strategy B returns true exactly when it has clicked an add-to-cart  *)
(* button for at least one item; when it returns true Strategy C is not    *)
(* invoked, and when it clicked nothing it returns false and Strategy C    *)
(* runs.                                                                   *)
C9_DomSuccessIffClicked ==
  /\ resB = "true" => (Happened("click") /\ ~Happened("startC"))
  /\ resB = "false" =>
       /\ ~Happened("click")
       /\ pc # "afterB" => Happened("startC")
  /\ pc \in {"done", "rejected", "complete", "afterB"} /\ Happened("startB") =>
       resB # "none"

\* Strategy B clicked for one of two items and returned true
C9_Witness ==
  /\ resB = "true"
  /\ Count("click") = 1
  /\ Count("domItem") = 2

---------------------------------------------------------------------------
(* C10: an exception raised by a DOM operation while Strategy B processes  *)
(* item i is caught within that item: the strategy still returns, every    *)
(* item after i is still processed, and the clicks counted for earlier     *)
(* items stay counted.                                                     *)
C10_DomErrorContained ==
  Happened("domErr") =>
    /\ added = Count("click")
    /\ resB = "none" => pc \in StrategyBPositions
    /\ resB # "none" =>
         /\ \A j \in DOMAIN validItems :
              MeetsLineItemInvariant(validItems[j]) =>
                \E p \in Positions("domItem") : trace[p].k = j
         /\ resB = "true" <=> Happened("click")

\* item 1 was clicked, item 2 raised, and Strategy B still returned true
C10_Witness ==
  /\ \E p \in Positions("click") : trace[p].k = 1
  /\ \E p \in Positions("domErr") : trace[p].k = 2
  /\ resB = "true"

---------------------------------------------------------------------------
\* the query string the specification describes for a list of valid items:
\* 'items[]=<variantId>:<quantity>' per item, joined by '&', order kept
RECURSIVE QueryOf(_)
QueryOf(s) ==
  IF Len(s) = 0 THEN ""
  ELSE LET last == s[Len(s)]
           pair == "items[]=" \o last.variantId.v \o ":" \o NatToStr(last.quantity)
       IN IF Len(s) = 1 THEN pair
          ELSE QueryOf(SubSeq(s, 1, Len(s) - 1)) \o "&" \o pair

\* the invocation is past the three strategies
PastStrategies == pc \in {"complete", "done", "rejected"}

---------------------------------------------------------------------------
(* C12: the toast and the notification are emitted only when Strategy A or *)
(* Strategy B succeeded: in a run in which the batch was handed to         *)
(* Strategy C, no toast is shown and no notification is dispatched.        *)
C12_RedirectSilent ==
  Happened("startC") =>
    /\ ~Happened("toast")
    /\ toast = [display |-> "none", text |-> ""]
    /\ ~Happened("event")
    /\ events = <<>>

---------------------------------------------------------------------------
\* Strategy A or Strategy B has reported success
AddedByAOrB == resA = "true" \/ resB = "true"

(* C13: on A or B success the reported totalQty is the sum of the          *)
(* quantities of the valid items of the batch, the toast reads             *)
(* '<totalQty> produto(s) adicionado(s) ao carrinho!', and the event       *)
(* detail is {items: the valid items in input order, totalQty}; a host add *)
(* call carries the item's identifier and quantity.                        *)
C13_SuccessReport ==
  AddedByAOrB =>
    /\ Happened("toast") =>
         toast.text = NatToStr(SumQty(ValidItemsOfBatch))
                        \o " produto(s) adicionado(s) ao carrinho!"
    /\ \A e \in DOMAIN events :
         events[e] = [items |-> ValidItemsOfBatch,
                      totalQty |-> SumQty(ValidItemsOfBatch)]
    /\ \A j \in DOMAIN HostCalls :
         /\ HostCalls[j].id = validItems[HostCalls[j].k].variantId
         /\ HostCalls[j].n = validItems[HostCalls[j].k].quantity

---------------------------------------------------------------------------
\* item k of validItems was added: its host add call resolved, or Strategy B
\* clicked an add button for it
WasAdded(k) ==
  \E p \in DOMAIN trace : trace[p].k = k /\ trace[p].op \in {"hostOk", "click"}

\* the items that were added, in input order
AddedItems ==
  LET n == Len(validItems)
      keep == {k \in 1..n : WasAdded(k)}
      F[k \in 0..n] ==
        IF k = 0 THEN <<>>
        ELSE IF k \in keep THEN Append(F[k - 1], validItems[k]) ELSE F[k - 1]
  IN F[n]

(* C14: the items carried by the notification are exactly the items that   *)
(* were added (host add resolved, or add click dispatched), and the        *)
(* carried total is the sum over those items; stated here for the runs the *)
(* claim singles out, a batch of valid items only for which Strategy B     *)
(* succeeded.                                                              *)
C14_NotifiesOnlyAdded ==
  (resB = "true" /\ ValidItemsOfBatch = items) =>
    \A e \in DOMAIN events :
      /\ events[e].items = AddedItems
      /\ events[e].totalQty = SumQty(AddedItems)

---------------------------------------------------------------------------
\* the last entry of a non-empty sequence
Last(s) == s[Len(s)]

(* C16: while a host add call of Strategy A has not settled, the           *)
(* invocation has started neither Strategy B nor Strategy C, has emitted   *)
(* no toast and no notification and has not completed; the only step that *)
(* takes the invocation out of the wait is the settling of that call, so   *)
(* an invocation whose call never settles never completes.                 *)
C16_HungCallStalls ==
  /\ [](InFlight > 0 =>
          /\ pc = "A_await"
          /\ resA = "none"
          /\ ~Happened("startB")
          /\ ~Happened("startC")
          /\ ~Happened("toast")
          /\ toast.display = "none"
          /\ events = <<>>
          /\ location = "")
  /\ [][pc = "A_await" =>
          \/ pc' = "A_await"
          \/ /\ Len(trace') = Len(trace) + 1
             /\ Last(trace').op \in {"hostOk", "hostErr"}
             /\ Last(trace').k = idx]_vars

\* the call for the second item is in flight after the first has resolved
C16_Witness ==
  /\ pc = "A_await"
  /\ idx = 2
  /\ InFlight = 1
  /\ \E p \in Positions("hostOk") : trace[p].k = 1

---------------------------------------------------------------------------
(* C17: without a navigable context (window undefined) addToCartBulk does  *)
(* not reject, issues no host add call, performs no DOM action and no      *)
(* navigation, shows no toast and dispatches no notification: every        *)
(* strategy that ran returned false and the invocation completes silently. *)
C17_NoContextNoEffect ==
  ~env.window =>
    /\ pc # "rejected"
    /\ ~Happened("hostAdd")
    /\ ~DomActionHappened
    /\ ~Happened("navigate")
    /\ location = ""
    /\ ~Happened("toast")
    /\ toast = [display |-> "none", text |-> ""]
    /\ events = <<>>
    /\ "true" \notin {resA, resB, resC}
    /\ ~success
    /\ (pc = "done" /\ validItems # <<>>) => (resA = "false" /\ resB = "false" /\ resC = "false")

\* outside a browser all three strategies were tried for a valid item (the
\* DOM lookup raised) and the invocation completed
C17_Witness ==
  /\ ~env.window
  /\ pc = "done"
  /\ ValidItemsOfBatch # <<>>
  /\ Happened("domErr")
  /\ resC = "false"

---------------------------------------------------------------------------
\* the entries of trace made on behalf of item k after position p
After(p, op, k) == {q \in Positions(op) : q > p /\ trace[q].k = k}

\* the first entry of the running invocation in trace
InvocationStart ==
  LET starts == Positions("startA")
  IN CHOOSE p \in starts : \A q \in starts : q <= p

\* the host add calls of the invocations before the running one
EarlierHostCalls == SelectSeq(SubSeq(trace, 1, InvocationStart - 1), IsHostAdd)

\* the host add calls of the running invocation
RunningHostCalls == SelectSeq(SubSeq(trace, InvocationStart, Len(trace)), IsHostAdd)

(* C15: when the host add call for item k > 1 fails, what Strategy A added *)
(* for items 1..k-1 stays added (no call takes it back) and the fallback   *)
(* runs over the complete list of valid items: Strategy B processes every  *)
(* item from the first on, and the redirect carries every item.  A second  *)
(* invocation of the same batch issues the same host add calls again, in   *)
(* the same order.                                                         *)
C15_FallbackCoversAll ==
  /\ \A p \in Positions("hostErr") :
       trace[p].k > 1 =>
         /\ \A j \in 1..(trace[p].k - 1) :
              \E q \in Positions("hostOk") : q < p /\ trace[q].k = j
         /\ resB # "none" =>
              \A j \in DOMAIN validItems : After(p, "domItem", j) # {}
         /\ \A q \in Positions("domItem") :
              (q > p /\ trace[q].k > 1) => After(p, "domItem", trace[q].k - 1) # {}
         /\ resC = "true" => location = "/cart/add?" \o QueryOf(validItems)
  /\ (events # <<>> /\ pc \in {"A_loop", "A_await", "afterA"}) =>
       LET earlier == EarlierHostCalls
           running == RunningHostCalls
       IN /\ \A j \in DOMAIN running :
               j <= Len(earlier) /\ running[j] = earlier[j]
          /\ resA = "true" => running = earlier

\* in the second invocation of a batch the call for item 1, already added
\* by the first invocation, resolved again, the call for item 2 failed, and
\* Strategy B then clicked the add button for item 1
C15_Witness ==
  /\ Invocations = 2
  /\ Len(EarlierHostCalls) = 2
  /\ \E p \in Positions("hostErr") :
       /\ trace[p].k = 2
       /\ After(p, "click", 1) # {}
       /\ \E q \in Positions("hostOk") : q > InvocationStart /\ q < p /\ trace[q].k = 1

---------------------------------------------------------------------------
(* C18: with a #cart-toast element, every message set by showToast stays   *)
(* displayed until 3000 ms after it was shown, however the calls of        *)
(* showToast follow each other; without the element nothing is shown.      *)
C18_ToastStaysDisplayed ==
  /\ \A i \in DOMAIN shows :
       (shows[i].el /\ now < shows[i].at + ToastMs) => toast.display = "block"
  /\ (\A i \in DOMAIN shows : ~shows[i].el) =>
       toast = [display |-> "none", text |-> ""]

---------------------------------------------------------------------------
\* the positions of a kind of entry in apiLog
ApiPositions(op) == {p \in DOMAIN apiLog : apiLog[p].op = op}

IsSleep(e) == e.op = "sleep"

\* the sleeps of the call so far, in order
Sleeps == SelectSeq(apiLog, IsSleep)

\* the 429 responses received so far
RateLimited == {p \in ApiPositions("err") : apiLog[p].n = 429}

(* C19: getProductVariants retries only on a 429 response: a request after *)
(* the first follows a sleep, a sleep follows a 429 response, the sleeps   *)
(* are 500, 1000 and 2000 ms in this order; when the call returns, it      *)
(* returns the data of its only successful response and has slept once per *)
(* 429 response; an error other than 429 is rethrown at once, nothing      *)
(* following it.                                                           *)
C19_RetryOn429 ==
  /\ Len(Sleeps) <= 3
  /\ \A i \in DOMAIN Sleeps : Sleeps[i].n = <<500, 1000, 2000>>[i]
  /\ \A p \in ApiPositions("sleep") :
       /\ p > 1
       /\ apiLog[p - 1].op = "err"
       /\ apiLog[p - 1].n = 429
       /\ apiLog[p].n = 500 * (2 ^ apiLog[p - 1].a)
  /\ \A p \in ApiPositions("get") :
       \/ p = 1 /\ apiLog[p].a = 0
       \/ p > 1 /\ apiLog[p - 1].op = "sleep" /\ apiLog[p].a = apiLog[p - 1].a + 1
  /\ apiPc = "returned" =>
       /\ ApiPositions("ok") = {Len(apiLog)}
       /\ apiResult.kind = "data"
       /\ apiResult.d = apiLog[Len(apiLog)].d
       /\ Len(Sleeps) = Cardinality(RateLimited)
  /\ \A p \in ApiPositions("err") :
       apiLog[p].n # 429 =>
         /\ p = Len(apiLog)
         /\ apiPc = "thrown"
         /\ apiResult = [kind |-> "error", s |-> apiLog[p].s, n |-> apiLog[p].n, d |-> <<>>]
         /\ Len(Sleeps) = Cardinality(RateLimited)

\* the call returned the data of its fourth request after three 429
\* responses and the three sleeps
C19_Witness ==
  /\ apiPc = "returned"
  /\ Cardinality(RateLimited) = 3
  /\ Len(Sleeps) = 3
  /\ Sleeps[3].n = 2000
  /\ apiResult.d = <<101>>

---------------------------------------------------------------------------
(* C20: one call of getProductVariants makes at most 3 requests; when      *)
(* every request is answered 429 the call rejects after the third.         *)
C20_AtMostThreeAttempts ==
  /\ Cardinality(ApiPositions("get")) <= 3
  /\ (apiPc = "thrown" /\ RateLimited = ApiPositions("err")) =>
       Cardinality(ApiPositions("get")) = 3

---------------------------------------------------------------------------
(* searchVariantsBySku: cache and debounce *)

\* the requests through which a call for prefix p had resolved when call j
\* was made
ResolvedFor(p, j) ==
  {r \in DOMAIN requests :
     /\ requests[r].outcome = "ok"
     /\ requests[r].calls < j
     /\ \E k \in DOMAIN requests[r].resolvers :
          promises[requests[r].resolvers[k]].prefix = p}

\* the one of them answered last
LastResolved(p, j) ==
  CHOOSE r \in ResolvedFor(p, j) :
    \A s \in ResolvedFor(p, j) : requests[s].ord <= requests[r].ord

\* C21: once a call for prefix p has resolved successfully, a later call for
\* p made less than 5 minutes after that result was cached is answered from
\* the cache with the same data and no request; a call made after the entry
\* has expired is not answered from the cache.
C21_CachedForFiveMinutes ==
  \A j \in DOMAIN promises :
    ResolvedFor(promises[j].prefix, j) # {} =>
      LET r == LastResolved(promises[j].prefix, j) IN
        IF promises[j].at < requests[r].done + CacheTtlMs
        THEN promises[j].hit /\ promises[j].data = requests[r].data
        ELSE ~promises[j].hit

\* C29: a promise of searchVariantsBySku(p) resolves with the variants the API
\* returned for p, and the cache entry under p holds the API's result for p.
C29_ResolvesOwnPrefix ==
  /\ \A i \in DOMAIN promises :
       promises[i].state = "resolved" => promises[i].data.q = promises[i].prefix
  /\ \A e \in cache : e.key = SkuCacheKey(e.data.q)

\* the calls the cache did not answer
Uncached == {i \in DOMAIN promises : ~promises[i].hit}

\* the uncached call that follows uncached call i, if any
NextUncached(i) ==
  {j \in Uncached : j > i /\ \A c \in Uncached : c > i => j <= c}

\* the last call of the burst of uncached call i: the burst goes on while
\* the next uncached call comes less than 300 ms after the one before
RECURSIVE LastOfBurst(_)
LastOfBurst(i) ==
  IF \E j \in NextUncached(i) : promises[j].at - promises[i].at < DebounceMs
  THEN LastOfBurst(CHOOSE j \in NextUncached(i) : TRUE)
  ELSE i

\* the burst that ends with call l is over: a later burst has begun, or the
\* timer has fired
BurstOver(l) == NextUncached(l) # {} \/ ~skuDebounceTimer.set

\* the requests issued 300 ms after call l
RequestsAfter(l) ==
  {r \in DOMAIN requests : requests[r].at = promises[l].at + DebounceMs}

\* C22: a burst of uncached calls, each less than 300 ms after the one
\* before, issues exactly one request, 300 ms after its last call, and the
\* outcome of that request settles every promise of the burst, once each.
C22_DebouncedBurst ==
  /\ \A i \in Uncached :
       LET l == LastOfBurst(i) IN
         IF BurstOver(l)
         THEN /\ Cardinality(RequestsAfter(l)) = 1
              /\ \A r \in RequestsAfter(l) :
                   /\ requests[r].outcome = "pending" =>
                        promises[i].state = "pending" /\ promises[i].n = 0
                   /\ requests[r].outcome = "ok" =>
                        /\ promises[i].state = "resolved"
                        /\ promises[i].data = requests[r].data
                        /\ promises[i].via = r
                        /\ promises[i].n = 1
                   /\ requests[r].outcome = "err" =>
                        /\ promises[i].state = "rejected"
                        /\ promises[i].via = r
                        /\ promises[i].n = 1
         ELSE promises[i].state = "pending" /\ promises[i].n = 0
  /\ \A r \in DOMAIN requests :
       \E i \in Uncached : LastOfBurst(i) = i /\ r \in RequestsAfter(i)

\* a request has answered a burst of two calls or more
C22_Witness ==
  \E r \in DOMAIN requests :
    /\ requests[r].outcome = "ok"
    /\ Len(requests[r].resolvers) >= 2
    /\ \E s \in DOMAIN requests : requests[s].outcome = "err"

---------------------------------------------------------------------------
(* The token store and the webhook *)

\* the calls before the k-th that set or removed the token of user u
WritesBefore(u, k) ==
  {j \in 1..(k - 1) :
     /\ storeLog[j].u = u
     /\ \/ storeLog[j].op = "saveToken" /\ ~storeLog[j].threw
        \/ storeLog[j].op = "removeToken"}

\* what a map would return for the k-th call, a getToken
MapValue(k) ==
  LET W == WritesBefore(storeLog[k].u, k) IN
    IF W = {} THEN JsNull
    ELSE LET j == CHOOSE w \in W : \A x \in W : x <= w IN
           IF storeLog[j].op = "saveToken" THEN Str(storeLog[j].t) ELSE JsNull

\* the user of the call just made
Touched == storeLog'[Len(storeLog')].u

\* C23: the token store is a map from userId to token: getToken returns the
\* token of the latest saveToken not followed by a removeToken, null
\* otherwise; a call for one user leaves the records of the others as they
\* were; with the key set no record holds the token in plaintext.
C23_TokenStoreIsMap ==
  /\ [](\A k \in DOMAIN storeLog :
          storeLog[k].op = "getToken" => storeLog[k].ret = MapValue(k))
  /\ [](tokenKey.set => \A r \in tokensFile.records : isEncrypted(r))
  /\ [][storeLog' # storeLog =>
          \A u \in StoreUsers : u # Touched => RecordsOf(u)' = RecordsOf(u)]_vars

\* C24: with the secret set the handler runs only on a header that equals
\* the base64 HMAC-SHA256 of the request body under the secret; a missing or
\* other header is answered 401 and the token file stays as it was; when
\* the handler removes a token it is the one of the store named in the
\* body; in production without a secret the answer is 500 and the handler
\* does not run.
C24_WebhookSignature ==
  \A k \in DOMAIN hookLog :
    LET e == hookLog[k]
        matches == e.signature = Base64Hmac(webhookSecret, e.raw)
    IN  /\ (webhookSecret # "" /\ e.ran) => matches
        /\ (webhookSecret # "" /\ ~matches) => (e.status = "401" /\ ~e.changed)
        /\ (webhookSecret = "" /\ nodeEnv = "production") =>
             (e.status = "500" /\ ~e.ran)
        /\ e.removed # NaN =>
             (e.ran /\ e.removed = ParseInt(Field(JsonParse(e.raw), "store_id")))

---------------------------------------------------------------------------
(* VariantGrid *)

\* C25: a click on the Add button calls onBulkAdd exactly once, with exactly
\* one item for each variant whose quantity is > 0 at that moment, carrying
\* its id and quantity; onBulkAdd never receives an empty list nor an item
\* of quantity <= 0.
C25_BulkAddItems ==
  \A k \in DOMAIN gridLog :
    gridLog[k].op = "click" =>
      /\ Len(gridLog[k].calls) = 1
      /\ LET its == gridLog[k].calls[1]
             q == gridLog[k].q
         IN  /\ its # <<>>
             /\ \A v \in DOMAIN q :
                  q[v] > 0 =>
                    Cardinality({i \in DOMAIN its : its[i].variantId = v}) = 1
             /\ \A i \in DOMAIN its :
                  /\ its[i].quantity > 0
                  /\ its[i].variantId \in DOMAIN q
                  /\ its[i].quantity = q[its[i].variantId]

\* a click has handed over the items of two variants
C25_Witness ==
  \E k \in DOMAIN gridLog :
    /\ gridLog[k].op = "click"
    /\ Len(gridLog[k].calls) = 1
    /\ Len(gridLog[k].calls[1]) = 2

---------------------------------------------------------------------------
(* Strategy B step by step *)

\* what strategyDomManipulation leaves in trace
StrategyBOps == DomOps \cup {"domItem", "delayed", "domErr"}

\* the entries of trace from the first item of Strategy B on
SinceStrategyB ==
  IF Happened("domItem") THEN FirstOf("domItem")..Len(trace) ELSE {}

\* the steps that may follow entry p for the same item
MayFollow(p) ==
  LET e == trace[p] IN
    IF e.op = "domItem" THEN {"selSet", "qtySet", "click", "domErr"}
    ELSE IF e.op = "selSet" THEN {"selChange", "domErr"}
    ELSE IF e.op = "selChange" THEN {"delayed"}
    ELSE IF e.op = "qtySet" THEN {"qtyInput", "domErr"}
    ELSE IF e.op = "qtyInput" THEN {"qtyChange", "domErr"}
    ELSE IF e.op = "qtyChange" THEN {"delayed"}
    ELSE IF e.op = "click" THEN {"delayed"}
    ELSE IF e.op = "delayed" /\ trace[p - 1].op = "selChange"
    THEN {"qtySet", "click", "domErr"}
    ELSE IF e.op = "delayed" /\ trace[p - 1].op = "qtyChange"
    THEN {"click", "domErr"}
    ELSE {}

\* the steps of an item may end with entry p
MayEnd(p) == trace[p].op \in {"domItem", "delayed", "domErr"}

\* the delay that follows a step
DelayAfter(op) == IF op = "qtyChange" THEN 100 ELSE 300

\* C26: Strategy B handles the items one after another, and for each item
\* sets the select and raises 'change', waits 300 ms, sets the quantity
\* input to the item's quantity and raises 'input' then 'change', waits
\* 100 ms, clicks the add control, waits 300 ms; a control that is absent is
\* passed over, and no step of the next item comes before the last step of
\* the item before.
C26_StrategyBStepOrder ==
  \A p \in SinceStrategyB :
    trace[p].op \in StrategyBOps =>
      /\ trace[p].op = "delayed" =>
           /\ trace[p - 1].op \in {"selChange", "qtyChange", "click"}
           /\ trace[p - 1].k = trace[p].k
           /\ trace[p].n = DelayAfter(trace[p - 1].op)
      /\ trace[p].op = "qtySet" =>
           trace[p].id = Str(NatToStr(validItems[trace[p].k].quantity))
      /\ trace[p].op = "selSet" =>
           trace[p].id = JsString(validItems[trace[p].k].variantId)
      /\ (p < Len(trace) /\ trace[p + 1].op \in StrategyBOps) =>
           IF trace[p + 1].k = trace[p].k
           THEN trace[p + 1].op \in MayFollow(p)
           ELSE /\ trace[p + 1].op = "domItem"
                /\ trace[p + 1].k > trace[p].k
                /\ MayEnd(p)

\* the first item went through its three steps; the second found neither
\* select nor input and was clicked right away
C26_Witness ==
  /\ \E p \in DOMAIN trace :
       /\ trace[p].op = "click" /\ trace[p].k = 2
       /\ trace[p - 1].op = "domItem"
  /\ \E p \in DOMAIN trace : trace[p].op = "selChange" /\ trace[p].k = 1
  /\ \E p \in DOMAIN trace : trace[p].op = "qtyChange" /\ trace[p].k = 1
  /\ \E p \in DOMAIN trace : trace[p].op = "click" /\ trace[p].k = 1

---------------------------------------------------------------------------
\* an add was performed: a host add call resolved, or an add button was
\* clicked
SomeAddPerformed ==
  \E p \in DOMAIN trace : trace[p].op \in {"hostOk", "click"}

\* C27: when the success toast is shown or the notification dispatched, at
\* least one add was performed in the invocation; and Strategy A reports
\* success only after a host add call for every item of its list.
C27_NotifiedImpliesAdded ==
  /\ (Happened("toast") \/ toast.display # "none" \/ events # <<>>)
       => SomeAddPerformed
  /\ resA = "true" =>
       \A k \in DOMAIN validItems :
         \E p \in DOMAIN trace : trace[p].op = "hostAdd" /\ trace[p].k = k

---------------------------------------------------------------------------
\* the invocation has completed: its promise has settled (after the redirect
\* was triggered, if it was)
Completed == pc \in {"done", "rejected"}

\* how many times a strategy took up item k: host add calls of Strategy A,
\* entries into the try of Strategy B
Visits(op, k) ==
  Cardinality({p \in DOMAIN trace : trace[p].op = op /\ trace[p].k = k})

\* C30: when every host add call settles and every timer fires, the
\* invocation completes, and each strategy has taken up each valid item at
\* most once.
C30_Completes ==
  /\ <>Completed
  /\ [](\A k \in DOMAIN validItems :
          Visits("hostAdd", k) <= 1 /\ Visits("domItem", k) <= 1)

\* an invocation has completed after both strategies went through two items
C30_Witness ==
  /\ Completed
  /\ Len(validItems) = 2
  /\ Visits("hostAdd", 1) = 1
  /\ Visits("domItem", 1) = 1
  /\ Visits("domItem", 2) = 1

---------------------------------------------------------------------------
\* C28: whenever Strategy B clicks the add button for an item, a quantity
\* input that was found holds that item's quantity and a variant select that
\* was found holds that item's variant, whatever another invocation on the
\* page does meanwhile.
C28_ClickSeesOwnValues ==
  \A c \in DOMAIN clicks :
    /\ pageControls.input => clicks[c].qtyValue = NatToStr(clicks[c].item.quantity)
    /\ pageControls.select => clicks[c].selectValue = Interp(clicks[c].item.variantId)

====
